---- MODULE Spec2Model ----
\* A model of the acquisition core of src/src/download.py: Downloader.download_all,
\* its HTTP fan-out, the Drive folder pipeline (listing, dedupe, local-skip,
\* scheduling, manifest, verify-only / manifest-only modes, drain) and the
\* HTTP and Drive fetch tasks running on bounded thread pools over a shared
\* file system.
EXTENDS Integers, Sequences, FiniteSets, TLC

\* ---------------------------------------------------------------- bounds

\* Most http_file items in a config.
MaxHttp == 2
\* Most gdrive_folder items in a config.
MaxFolders == 2
\* Most files the walker yields for one gdrive_folder item.
MaxList == 2
\* Largest worker-pool size passed to the constructor.
MaxWorkers == 2

\* ---------------------------------------------------------------- values

\* Optional values: None is Python's None, Some(v) a present value.
None == <<>>
Some(v) == <<v>>

\* Bytes are sequences of blocks; a block is one chunk written by one write call.
\* Block 0 is a zero-filled or damaged block.
RECURSIVE Md5(_)
Md5(data) == IF data = <<>> THEN 1 ELSE 3 * Md5(SubSeq(data, 1, Len(data) - 1)) + data[Len(data)]

\* ---------------------------------------------------------------- the remote world

\* The Drive files the walker can yield, by Drive id: display name (the path
\* relative to target_root), the bytes the media endpoint holds, and whether the
\* listing carries md5Checksum and size (absent for Google-native documents).
DriveIds == {"d1", "d2", "d3", "d4", "d5"}
DriveName(id) == IF id = "d5" THEN "y" ELSE "x"
DriveBytes(id) == CASE id = "d1" -> <<1>>
                    [] id = "d2" -> <<2>>
                    [] id = "d3" -> <<1>>
                    [] id = "d4" -> <<2>>
                    [] OTHER -> <<>>
\* The order in which the server lists the files of a folder, or its reverse.
DriveOrder == <<"d1", "d2", "d3", "d4", "d5">>
DriveHasMd5(id) == id # "d4"
DriveHasSize(id) == id # "d4"

\* The HTTP items a config can hold: the URL's path segments, the explicit
\* filename (or None) and the body the server sends.
HttpIds == {"h1", "h2", "h3", "h4"}
HttpUrlPath(h) == CASE h = "h1" -> <<"a">>
                    [] h = "h2" -> <<"dir", "a">>
                    [] h = "h3" -> <<"c">>
                    [] OTHER -> <<>>
HttpExplicitName(h) == IF h = "h3" THEN Some("b") ELSE None
HttpBytes(h) == CASE h = "h1" -> <<1, 2>>
                  [] h = "h2" -> <<2, 1>>
                  [] OTHER -> <<2>>

\* ---------------------------------------------------------------- paths and files

\* A path under target_root is a tuple: <<name>> for a final destination,
\* <<name, "part">> and <<name, "part", id>> for the temp names.
Dest(name) == <<name>>
HttpTmp(dest) == dest \o <<"part">>
\* A faulty variant of the Drive temp name: the Drive id is left out.
DriveTmpShared(dest, id) == dest \o <<"part">>
DriveTmp(dest, id) == dest \o <<"part", id>>
FinalPaths == {<<"a">>, <<"b">>, <<"x">>, <<"y">>}

\* The file system maps the existing paths to their bytes.
Exists(files, p) == p \in DOMAIN files
Unlink(files, p) == [q \in DOMAIN files \ {p} |-> files[q]]
OpenWb(files, p) == [q \in DOMAIN files \cup {p} |-> IF q = p THEN <<>> ELSE files[q]]
Rename(files, src, dst) == [q \in (DOMAIN files \ {src}) \cup {dst} |-> IF q = dst THEN files[src] ELSE files[q]]
\* A write of one block at block offset off (0-based) of the file's bytes: the
\* gap before it, if any, reads as zero blocks.
WriteAt(data, off, b) == [i \in 1..(IF Len(data) > off + 1 THEN Len(data) ELSE off + 1) |-> IF i = off + 1 THEN b ELSE IF i <= Len(data) THEN data[i] ELSE 0]

\* ---------------------------------------------------------------- configurations

\* The sequences of distinct elements of S of length at most n.
RECURSIVE SeqsUpTo(_, _)
SeqsUpTo(S, n) == IF n = 0 THEN {<<>>} ELSE LET shorter == SeqsUpTo(S, n - 1) IN shorter \cup {Append(q, e) : q \in {r \in shorter : Len(r) = n - 1}, e \in S}
Distinct(q) == \A i, j \in 1..Len(q) : i # j => q[i] # q[j]
Range(q) == {q[i] : i \in 1..Len(q)}
HttpConfigs == {q \in SeqsUpTo(HttpIds, MaxHttp) : Distinct(q)}

\* Downloader.__init__ clamps both pool sizes.
ClampWorkers(n) == IF n < 1 THEN 1 ELSE n

VARIABLES
    http_items,             \* config: the http_file items, in config order
    n_folders,              \* config: the number of gdrive_folder items
    manifest_only, verify_only, verify_downloads, overwrite,
    max_http_workers, max_drive_workers,
    files,                  \* the file system under target_root: path -> bytes
    manifest_file,          \* .manifest.json: None, or Some(the JSON array)
    pc,                     \* where download_all is
    cur,                    \* index of the gdrive_folder item being processed
    yielded,                \* the Drive ids the walker has yielded for it, in order
    manifest,               \* _download_gdrive_folder's locals, see the source
    seen_md5_by_path,
    conflict_md5s_by_path,
    skipped_duplicate_count,
    futures,                \* Drive ids submitted to the Drive executor, in order
    http_task,              \* per http item: the state of its worker call
    drive_task,             \* per submitted Drive id: the state of its fetch
    err,                    \* the exception download_all raised, "none" before
    run,                    \* 1 in the first download_all call, 2 in a repeated one
    listed,                 \* per folder item listed to its end in the first call: its listing
    first_manifest,         \* .manifest.json as the first call left it
    disk0,                  \* the file system before the first call
    cli,                    \* the state of downloads/cli.py main, see InitCli
    walk,                   \* the state of one _walk_folder generator, see InitWalk
    loader,                 \* the state of one _load_config call, see InitLoad
    creds,                  \* the Drive credentials of one Downloader, see InitCreds
    dedupe,                 \* the state of one dedupe_manifest call, see InitDedupe
    verifier                \* the last _verify_local_file call on a given disk, see InitVerify

config == <<http_items, n_folders, manifest_only, verify_only, verify_downloads, overwrite, max_http_workers, max_drive_workers>>
producer == <<manifest, seen_md5_by_path, conflict_md5s_by_path, skipped_duplicate_count, futures>>
history == <<run, listed, first_manifest, disk0>>
downloader == <<config, files, manifest_file, pc, cur, yielded, producer, http_task, drive_task, err, history>>
aux == <<cli, walk, loader, creds, dedupe, verifier>>
\* All variables but one of the last six.
but_cli == <<downloader, walk, loader, creds, dedupe, verifier>>
but_walk == <<downloader, cli, loader, creds, dedupe, verifier>>
but_loader == <<downloader, cli, walk, creds, dedupe, verifier>>
but_creds == <<downloader, cli, walk, loader, dedupe, verifier>>
but_dedupe == <<downloader, cli, walk, loader, creds, verifier>>
but_verifier == <<downloader, cli, walk, loader, creds, dedupe>>
vars == <<downloader, aux>>

\* Task records: pc is the position of the call, at the path whose file the
\* call holds open for writing (<<>> when none, or when that file was unlinked or
\* replaced), off the number of blocks it has written, fault what went wrong
\* in the transfer ("none", "http_error" or "damaged").
Idle == [pc |-> "idle", at |-> <<>>, off |-> 0, fault |-> "none"]
Queued == [pc |-> "queued", at |-> <<>>, off |-> 0, fault |-> "none"]
EmptyMap == [p \in {} |-> {}]
NoFiles == [p \in {} |-> <<>>]

\* The disk before the run: empty, or files left at x, y and a by earlier runs.
InitDisks == {NoFiles, [p \in {Dest("x"), Dest("y"), Dest("a")} |-> IF p = Dest("a") THEN <<2, 2>> ELSE <<1>>]}

\* download_all is studied on its own: main, the walker, the config loader,
\* the credentials, the manifest dedupe and the verifier calls stand still.
CliOff == [pc |-> "off"]
WalkOff == [pc |-> "off"]
LoaderOff == [pc |-> "off"]
CredsOff == [pc |-> "off"]
DedupeOff == [pc |-> "off"]
VerifierOff == [pc |-> "off"]

Init ==
    /\ http_items \in HttpConfigs
    /\ n_folders \in 0..MaxFolders
    /\ Len(http_items) + n_folders >= 1
    /\ http_items # <<>> => n_folders <= 1
    /\ manifest_only \in BOOLEAN
    /\ verify_only \in BOOLEAN
    /\ verify_downloads \in BOOLEAN
    /\ overwrite \in BOOLEAN
    /\ max_http_workers \in {ClampWorkers(n) : n \in 0..(IF Len(http_items) > 1 THEN MaxWorkers ELSE 1)}
    /\ max_drive_workers \in {ClampWorkers(n) : n \in 0..(IF Len(http_items) + n_folders = 1 THEN MaxWorkers ELSE 1)}
    /\ files \in InitDisks
    /\ manifest_file = None
    /\ pc = "start"
    /\ cur = 0
    /\ yielded = <<>>
    /\ manifest = <<>>
    /\ seen_md5_by_path = EmptyMap
    /\ conflict_md5s_by_path = EmptyMap
    /\ skipped_duplicate_count = 0
    /\ futures = <<>>
    /\ http_task = [i \in 1..Len(http_items) |-> Idle]
    /\ drive_task = [d \in {} |-> Idle]
    /\ err = "none"
    /\ run = 1
    /\ listed = <<>>
    /\ first_manifest = None
    /\ disk0 = files
    /\ cli = CliOff
    /\ walk = WalkOff
    /\ loader = LoaderOff
    /\ creds = CredsOff
    /\ dedupe = DedupeOff
    /\ verifier = VerifierOff

\* ---------------------------------------------------------------- thread pools

Running(tasks) == {t \in DOMAIN tasks : tasks[t].pc \notin {"idle", "queued", "done", "failed"}}
Terminated(tasks) == {t \in DOMAIN tasks : tasks[t].pc \in {"done", "failed"}}
\* A faulty variant of the pool: a call is taken whatever the number running.
WorkerFreeUnbounded(tasks, max_workers) == TRUE
\* A faulty variant of the drain: it ends with the first call that returns.
AllReturnedFirst(tasks) == DOMAIN tasks = {} \/ \E t \in DOMAIN tasks : tasks[t].pc = "done"
\* The drain loop, for future in as_completed(futures): future.result(), has
\* gone through every future without an exception.
AllReturned(tasks) == \A t \in DOMAIN tasks : tasks[t].pc = "done"
\* A faulty variant of the pool: a worker is not given back when its call ends.
WorkerFreeLeaky(tasks, max_workers) == Cardinality(Running(tasks) \cup Terminated(tasks)) < max_workers
\* A ThreadPoolExecutor worker is free to take the next call of the queue.
WorkerFree(tasks, max_workers) == Cardinality(Running(tasks)) < max_workers

\* ---------------------------------------------------------------- HTTP fetcher

\* Path(unquote(urlparse(url).path)).name: the last path segment, "" when none.
UrlName(path) == IF path = <<>> THEN "" ELSE path[Len(path)]
FileName(h) == IF HttpExplicitName(h) # None THEN HttpExplicitName(h)[1] ELSE UrlName(HttpUrlPath(h))
HttpDest(h) == Dest(FileName(h))

\* The handles of the other calls after a rename of src onto dst: a handle
\* follows its file, and the file dst named before is no longer linked.
FollowRename(tasks, src, dst) == [t \in DOMAIN tasks |-> IF tasks[t].at = src THEN [tasks[t] EXCEPT !.at = dst] ELSE IF tasks[t].at = dst THEN [tasks[t] EXCEPT !.at = <<>>] ELSE tasks[t]]
\* A write through a handle lands in the file the handle is on.
WriteBlock(fls, task, b) == IF task.at \in DOMAIN fls THEN [fls EXCEPT ![task.at] = WriteAt(@, task.off, b)] ELSE fls

\* A faulty variant of the mode checks: manifest_only is not looked at.
HttpSkippedVerifyOnly == verify_only
\* _download_http_files: the two mode checks.
HttpSkipped == manifest_only \/ verify_only

\* download_all, up to the HTTP fan-out: every item is submitted to the pool.
HttpSubmit ==
    /\ pc = "start"
    /\ http_items # <<>>
    /\ ~HttpSkipped
    /\ http_task' = [i \in DOMAIN http_task |-> Queued]
    /\ pc' = "http_drain"
    /\ UNCHANGED <<config, files, manifest_file, cur, yielded, producer, drive_task, err, history, aux>>

\* download_all with no http_file item, or _download_http_files returning at once.
HttpSkip ==
    /\ pc = "start"
    /\ (http_items = <<>> \/ HttpSkipped)
    /\ pc' = "folder"
    /\ cur' = 1
    /\ UNCHANGED <<config, files, manifest_file, yielded, producer, http_task, drive_task, err, history, aux>>

\* A pool worker takes the oldest queued call: filename, then the exists check.
HttpPick(i) ==
    /\ http_task[i].pc = "queued"
    /\ \A j \in DOMAIN http_task : j < i => http_task[j].pc # "queued"
    /\ WorkerFree(http_task, max_http_workers)
    /\ http_task' = [http_task EXCEPT ![i].pc =
            IF FileName(http_items[i]) = "" THEN "failed"
            ELSE IF Exists(files, HttpDest(http_items[i])) /\ ~overwrite THEN "done"
            ELSE "get"]
    /\ UNCHANGED <<config, files, manifest_file, pc, cur, yielded, producer, drive_task, err, history, aux>>

\* session.get and raise_for_status succeed; the temp file is opened "wb".
HttpGetOk(i) ==
    /\ http_task[i].pc = "get"
    /\ files' = OpenWb(files, HttpTmp(HttpDest(http_items[i])))
    /\ http_task' = [http_task EXCEPT ![i] = [pc |-> "write", at |-> HttpTmp(HttpDest(http_items[i])), off |-> 0, fault |-> "none"]]
    /\ UNCHANGED <<config, manifest_file, pc, cur, yielded, producer, drive_task, err, history, aux>>

\* The request fails or the status is not 2xx: nothing was opened.
HttpGetFail(i) ==
    /\ http_task[i].pc = "get"
    /\ http_task' = [http_task EXCEPT ![i].pc = "failed", ![i].fault = "http_error"]
    /\ UNCHANGED <<config, files, manifest_file, pc, cur, yielded, producer, drive_task, err, history, aux>>

\* One chunk of the body is written; after the last one the file is closed.
HttpWrite(i) ==
    /\ http_task[i].pc = "write"
    /\ LET body == HttpBytes(http_items[i])
           t == http_task[i]
       IN /\ files' = WriteBlock(files, t, body[t.off + 1])
          /\ http_task' = [http_task EXCEPT ![i] =
                IF t.off + 1 = Len(body) THEN [t EXCEPT !.pc = "rename", !.at = <<>>, !.off = t.off + 1]
                ELSE [t EXCEPT !.off = t.off + 1]]
    /\ UNCHANGED <<config, manifest_file, pc, cur, yielded, producer, drive_task, err, history, aux>>

\* The connection breaks while the body is read: the file is closed, the
\* temp file stays.
HttpWriteFail(i) ==
    /\ http_task[i].pc = "write"
    /\ http_task' = [http_task EXCEPT ![i].pc = "failed", ![i].at = <<>>, ![i].fault = "http_error"]
    /\ UNCHANGED <<config, files, manifest_file, pc, cur, yielded, producer, drive_task, err, history, aux>>

\* tmp_path.rename(dest_path): fails when the temp file is gone.
HttpRename(i) ==
    /\ http_task[i].pc = "rename"
    /\ LET dest == HttpDest(http_items[i])
           tmp == HttpTmp(dest)
       IN IF Exists(files, tmp)
          THEN /\ files' = Rename(files, tmp, dest)
               /\ http_task' = [FollowRename(http_task, tmp, dest) EXCEPT ![i].pc = "done"]
          ELSE /\ files' = files
               /\ http_task' = [http_task EXCEPT ![i].pc = "failed"]
    /\ UNCHANGED <<config, manifest_file, pc, cur, yielded, producer, drive_task, err, history, aux>>

\* as_completed / future.result(): the first failed future raises out of
\* _download_http_files and download_all; the pool is not shut down.
HttpDrainRaise ==
    /\ pc = "http_drain"
    /\ \E i \in DOMAIN http_task : http_task[i].pc = "failed"
    /\ pc' = "raised"
    /\ err' = "http"
    /\ UNCHANGED <<config, files, manifest_file, cur, yielded, producer, http_task, drive_task, history, aux>>

\* Every future returned: executor.shutdown(wait=True), on to the folder items.
HttpDrainDone ==
    /\ pc = "http_drain"
    /\ AllReturned(http_task)
    /\ pc' = "folder"
    /\ cur' = 1
    /\ UNCHANGED <<config, files, manifest_file, yielded, producer, http_task, drive_task, err, history, aux>>

\* ---------------------------------------------------------------- verifier and manifest

\* A faulty variant of _verify_local_file: the md5 is compared also when
\* verification is disabled.
VerifyLocalFileAlwaysMd5(fls, path, expected_size, expected_md5) ==
    /\ Exists(fls, path)
    /\ expected_size # None => Len(fls[path]) = expected_size[1]
    /\ expected_md5 # None => Md5(fls[path]) = expected_md5[1]
\* _verify_local_file.
VerifyLocalFile(fls, path, expected_size, expected_md5) ==
    IF ~Exists(fls, path) THEN FALSE
    ELSE IF expected_size # None /\ Len(fls[path]) # expected_size[1] THEN FALSE
    ELSE IF verify_downloads /\ expected_md5 # None THEN Md5(fls[path]) = expected_md5[1]
    ELSE TRUE

\* The metadata dict _walk_folder yields for a Drive file.
Meta(id) == [id |-> id, name |-> DriveName(id), md5Checksum |-> IF DriveHasMd5(id) THEN Some(Md5(DriveBytes(id))) ELSE None, size |-> IF DriveHasSize(id) THEN Some(Len(DriveBytes(id))) ELSE None]
\* The manifest entry built from it.
ManifestEntry(meta) == [id |-> meta.id, path |-> meta.name, md5 |-> meta.md5Checksum, size |-> meta.size]
\* Faulty variants of the append: newest first, and one entry per (path, md5).
AppendEntryNewestFirst(mf, entry) == <<entry>> \o mf
AppendEntryOncePerPair(mf, entry) == IF entry.md5 # None /\ \E k \in 1..Len(mf) : mf[k].path = entry.path /\ mf[k].md5 = entry.md5 THEN mf ELSE Append(mf, entry)
AppendEntry(mf, entry) == Append(mf, entry)
\* json.dumps(manifest, indent=2): a JSON array of objects, keys in insertion order.
ToJson(mf) == [i \in 1..Len(mf) |-> <<"id", mf[i].id, "path", mf[i].path, "md5", mf[i].md5, "size", mf[i].size>>]
\* A faulty variant of _write_manifest: nothing is written.
WriteManifestSkipped(old, mf) == old
\* _write_manifest: an empty manifest is not written.
WriteManifest(old, mf) == IF mf = <<>> THEN old ELSE Some(ToJson(mf))
\* _verify_against_manifest: the paths that are missing or corrupt.
MissingOrCorrupt(fls, mf) == {i \in 1..Len(mf) : ~VerifyLocalFile(fls, Dest(mf[i].path), IF mf[i].size # None /\ mf[i].size[1] # 0 THEN mf[i].size ELSE None, mf[i].md5)}

\* ---------------------------------------------------------------- Drive folder pipeline

\* A config of one item is explored with listings of up to MaxList files, a
\* config of several items with at most one file per folder item.
ListCap == IF Len(http_items) + n_folders = 1 THEN MaxList ELSE 1
\* The listing follows the server's order, ascending or descending.
Rank(id) == CHOOSE i \in 1..Len(DriveOrder) : DriveOrder[i] = id
InServerOrder(q) ==
    \/ \A i, j \in 1..Len(q) : i < j => Rank(q[i]) < Rank(q[j])
    \/ \A i, j \in 1..Len(q) : i < j => Rank(q[i]) > Rank(q[j])
\* A faulty variant of the loop's mode check: verify_only is not looked at.
ListOnlyManifest == manifest_only
\* A faulty variant of the loop's mode check: manifest_only is not looked at.
ListOnlyVerify == verify_only
\* The two mode checks of the listing loop.
ListOnly == manifest_only \/ verify_only
\* A faulty variant of the dedupe test: the path was seen with any md5.
IsDuplicateAnyMd5(seen, path, md5) == md5 # None /\ path \in DOMAIN seen
\* A faulty variant of the dedupe test: an entry without md5 is not let through.
IsDuplicateByPath(seen, path, md5) == path \in DOMAIN seen /\ (md5 = None \/ md5[1] \in seen[path])
\* The (path, md5) pair was seen earlier in this listing.
IsDuplicate(seen, path, md5) == md5 # None /\ path \in DOMAIN seen /\ md5[1] \in seen[path]
\* seen_md5_by_path after an entry that is not a duplicate.
SeenAfter(seen, path, md5) ==
    IF md5 = None THEN seen
    ELSE [q \in DOMAIN seen \cup {path} |-> IF q = path THEN (IF path \in DOMAIN seen THEN seen[path] ELSE {}) \cup {md5[1]} ELSE seen[q]]
\* conflict_md5s_by_path after such an entry: the path had another md5 before.
ConflictAfter(conflict, seen, path, md5) ==
    IF md5 = None \/ path \notin DOMAIN seen THEN conflict
    ELSE [q \in DOMAIN conflict \cup {path} |-> IF q = path THEN seen[path] \cup {md5[1]} ELSE conflict[q]]
\* A faulty variant of the local-skip decision: an unverified file is fetched again.
LocalSkipVerifiedOnly(fls, dest, expected_size, expected_md5) == Exists(fls, dest) /\ ~overwrite /\ verify_downloads /\ VerifyLocalFile(fls, dest, expected_size, expected_md5)
\* A faulty variant of the local-skip decision: overwrite is not looked at.
LocalSkipIgnoresOverwrite(fls, dest, expected_size, expected_md5) == Exists(fls, dest) /\ (~verify_downloads \/ VerifyLocalFile(fls, dest, expected_size, expected_md5))
\* A faulty variant of the local-skip decision: a path seen before is not fetched again.
LocalSkipSeenPath(fls, dest, expected_size, expected_md5) == dest[1] \in DOMAIN seen_md5_by_path \/ (Exists(fls, dest) /\ ~overwrite /\ (~verify_downloads \/ VerifyLocalFile(fls, dest, expected_size, expected_md5)))
\* The local-skip decision: the destination is there and is kept.
LocalSkip(fls, dest, expected_size, expected_md5) ==
    /\ Exists(fls, dest)
    /\ ~overwrite
    /\ \/ verify_downloads /\ VerifyLocalFile(fls, dest, expected_size, expected_md5)
       \/ ~verify_downloads

\* download_all: the next gdrive_folder item; _download_gdrive_folder's locals.
FolderStart ==
    /\ pc = "folder"
    /\ cur <= n_folders
    /\ pc' = "listing"
    /\ yielded' = <<>>
    /\ manifest' = <<>>
    /\ seen_md5_by_path' = EmptyMap
    /\ conflict_md5s_by_path' = EmptyMap
    /\ skipped_duplicate_count' = 0
    /\ futures' = <<>>
    /\ drive_task' = [d \in {} |-> Idle]
    /\ UNCHANGED <<config, files, manifest_file, cur, http_task, err, history, aux>>

\* download_all returns after the last item.
DownloadAllReturn ==
    /\ pc = "folder"
    /\ cur > n_folders
    /\ pc' = "returned"
    /\ UNCHANGED <<config, files, manifest_file, cur, yielded, producer, http_task, drive_task, err, history, aux>>

\* One iteration of the listing loop, for the entry the walker yields next.
\* _walk_folder: the file the walker can yield next. In a repeated call the
\* folder lists what it listed in the first call.
WalkerYields(id) ==
    IF run = 1 THEN Len(yielded) < ListCap /\ InServerOrder(Append(yielded, id))
    ELSE Len(yielded) < Len(listed[cur]) /\ id = listed[cur][Len(yielded) + 1]
\* _walk_folder: the walk is over.
WalkerDone == IF run = 1 THEN TRUE ELSE yielded = listed[cur]

\* The loop's locals as one value.
Locals == [manifest |-> manifest, seen |-> seen_md5_by_path, conflict |-> conflict_md5s_by_path, skipped |-> skipped_duplicate_count, futures |-> futures]
\* The loop body of the progress branch: append the entry; continue in the
\* list-only modes; continue on a duplicate; note the md5; continue when the
\* local file is kept; submit_download.
LoopBodyProgress(st, meta, fls) ==
    LET appended == [st EXCEPT !.manifest = AppendEntry(@, ManifestEntry(meta))]
    IN IF ListOnly THEN appended
       ELSE IF IsDuplicate(st.seen, meta.name, meta.md5Checksum)
       THEN [appended EXCEPT !.skipped = @ + 1]
       ELSE LET noted == [appended EXCEPT !.seen = SeenAfter(st.seen, meta.name, meta.md5Checksum),
                                          !.conflict = ConflictAfter(st.conflict, st.seen, meta.name, meta.md5Checksum)]
            IN IF LocalSkip(fls, Dest(meta.name), meta.size, meta.md5Checksum)
               THEN noted
               ELSE [noted EXCEPT !.futures = Append(@, meta.id)]
\* A faulty variant of the no-progress loop body: the local file is looked at
\* before the md5 of the entry is noted.
LoopBodyPlainLocalFirst(st, meta, fls) ==
    LET appended == [st EXCEPT !.manifest = AppendEntry(@, ManifestEntry(meta))]
    IN IF ~manifest_only /\ ~verify_only
       THEN IF LocalSkip(fls, Dest(meta.name), meta.size, meta.md5Checksum)
            THEN appended
            ELSE IF IsDuplicate(st.seen, meta.name, meta.md5Checksum)
            THEN [appended EXCEPT !.skipped = @ + 1]
            ELSE [appended EXCEPT !.seen = SeenAfter(st.seen, meta.name, meta.md5Checksum),
                                  !.conflict = ConflictAfter(st.conflict, st.seen, meta.name, meta.md5Checksum),
                                  !.futures = Append(@, meta.id)]
       ELSE appended
\* The loop body of the no-progress branch: append the entry; outside the
\* list-only modes: continue on a duplicate, note the md5, continue when the
\* local file is kept, submit_download.
LoopBodyPlain(st, meta, fls) ==
    LET appended == [st EXCEPT !.manifest = AppendEntry(@, ManifestEntry(meta))]
    IN IF ~manifest_only /\ ~verify_only
       THEN IF IsDuplicate(st.seen, meta.name, meta.md5Checksum)
            THEN [appended EXCEPT !.skipped = @ + 1]
            ELSE LET noted == [appended EXCEPT !.seen = SeenAfter(st.seen, meta.name, meta.md5Checksum),
                                               !.conflict = ConflictAfter(st.conflict, st.seen, meta.name, meta.md5Checksum)]
                 IN IF LocalSkip(fls, Dest(meta.name), meta.size, meta.md5Checksum)
                    THEN noted
                    ELSE [noted EXCEPT !.futures = Append(@, meta.id)]
       ELSE appended
\* The loop body of the branch that use_progress selects.
LoopBody(use_progress, st, meta, fls) ==
    IF use_progress THEN LoopBodyProgress(st, meta, fls) ELSE LoopBodyPlain(st, meta, fls)

\* One iteration of the listing loop. use_progress is fixed at construction;
\* it is drawn at each iteration, which includes every fixed choice.
ListEntry(id) ==
    /\ pc = "listing"
    /\ WalkerYields(id)
    /\ yielded' = Append(yielded, id)
    /\ \E use_progress \in BOOLEAN :
           LET out == LoopBody(use_progress, Locals, Meta(id), files)
           IN /\ manifest' = out.manifest
              /\ seen_md5_by_path' = out.seen
              /\ conflict_md5s_by_path' = out.conflict
              /\ skipped_duplicate_count' = out.skipped
              /\ futures' = out.futures
              /\ drive_task' = IF out.futures = futures THEN drive_task
                               ELSE [d \in DOMAIN drive_task \cup {id} |-> IF d = id THEN Queued ELSE drive_task[d]]
    /\ UNCHANGED <<config, files, manifest_file, pc, cur, http_task, err, history, aux>>

\* The list request fails: the HttpError ends the walk and the run.
ListError ==
    /\ pc = "listing"
    /\ pc' = "raised"
    /\ err' = "list"
    /\ UNCHANGED <<config, files, manifest_file, cur, yielded, producer, http_task, drive_task, history, aux>>

\* After the loop in the progress branch: the logs, _write_manifest, the
\* manifest_only return, the verify_only check and return; else the drain.
AfterLoopProgress(mf, man, fls) ==
    [manifest_file |-> WriteManifest(mf, man),
     outcome |-> IF manifest_only THEN "return"
                 ELSE IF verify_only THEN (IF MissingOrCorrupt(fls, man) # {} THEN "raise" ELSE "return")
                 ELSE "drain"]
\* After the loop in the no-progress branch: _write_manifest, the logs, the
\* manifest_only return, the verify_only check and return; else the drain.
AfterLoopPlain(mf, man, fls) ==
    [manifest_file |-> WriteManifest(mf, man),
     outcome |-> IF manifest_only THEN "return"
                 ELSE IF verify_only THEN (IF MissingOrCorrupt(fls, man) # {} THEN "raise" ELSE "return")
                 ELSE "drain"]
\* The code after the loop of the branch that use_progress selects.
AfterLoop(use_progress, mf, man, fls) ==
    IF use_progress THEN AfterLoopProgress(mf, man, fls) ELSE AfterLoopPlain(mf, man, fls)

\* The walker is exhausted: the code after the loop.
FinishListing ==
    /\ pc = "listing"
    /\ WalkerDone
    /\ listed' = IF run = 1 THEN Append(listed, yielded) ELSE listed
    /\ \E use_progress \in BOOLEAN :
           LET out == AfterLoop(use_progress, manifest_file, manifest, files)
           IN /\ manifest_file' = out.manifest_file
              /\ pc' = CASE out.outcome = "return" -> "folder"
                         [] out.outcome = "raise" -> "raised"
                         [] out.outcome = "drain" -> "drain"
              /\ cur' = IF out.outcome = "return" THEN cur + 1 ELSE cur
              /\ err' = IF out.outcome = "raise" THEN "verify" ELSE err
    /\ UNCHANGED <<config, files, yielded, producer, http_task, drive_task, run, first_manifest, disk0, aux>>

\* as_completed / future.result(): the first failed future raises.
DrainRaise ==
    /\ pc = "drain"
    /\ \E d \in DOMAIN drive_task : drive_task[d].pc = "failed"
    /\ pc' = "raised"
    /\ err' = "drive"
    /\ UNCHANGED <<config, files, manifest_file, cur, yielded, producer, http_task, drive_task, history, aux>>

\* Every future returned: executor.shutdown(wait=True), the folder item is done.
DrainDone ==
    /\ pc = "drain"
    /\ AllReturned(drive_task)
    /\ pc' = "folder"
    /\ cur' = cur + 1
    /\ UNCHANGED <<config, files, manifest_file, yielded, producer, http_task, drive_task, err, history, aux>>

\* The caller interrupts download_all (KeyboardInterrupt in the main thread)
\* while it lists or waits: no handler, the exception leaves download_all at
\* once; the pool threads are not signalled.
Interrupt ==
    /\ pc \in {"http_drain", "listing", "drain"}
    /\ pc' = "raised"
    /\ err' = "interrupt"
    /\ UNCHANGED <<config, files, manifest_file, cur, yielded, producer, http_task, drive_task, history, aux>>

\* ---------------------------------------------------------------- Drive fetcher

\* A pool worker takes the oldest queued call; the temp file is opened "wb".
DrivePick(d) ==
    /\ d \in DOMAIN drive_task
    /\ drive_task[d].pc = "queued"
    /\ \A i \in 1..Len(futures) : futures[i] = d => \A j \in 1..(i - 1) : drive_task[futures[j]].pc # "queued"
    /\ WorkerFree(drive_task, max_drive_workers)
    /\ files' = OpenWb(files, DriveTmp(Dest(DriveName(d)), d))
    /\ drive_task' = [drive_task EXCEPT ![d] = [pc |-> "chunk", at |-> DriveTmp(Dest(DriveName(d)), d), off |-> 0, fault |-> "none"]]
    /\ UNCHANGED <<config, manifest_file, pc, cur, yielded, producer, http_task, err, history, aux>>

\* next_chunk writes one chunk, as sent (damaged = FALSE) or damaged in transit;
\* after the last one the file is closed. For an empty file the first call
\* writes nothing and reports done.
DriveChunk(d, damaged) ==
    /\ d \in DOMAIN drive_task
    /\ drive_task[d].pc = "chunk"
    /\ LET body == DriveBytes(d)
           t == drive_task[d]
       IN IF body = <<>>
          THEN /\ ~damaged
               /\ files' = files
               /\ drive_task' = [drive_task EXCEPT ![d].pc = "replace", ![d].at = <<>>]
          ELSE /\ files' = WriteBlock(files, t, IF damaged THEN 0 ELSE body[t.off + 1])
               /\ drive_task' = [drive_task EXCEPT ![d] =
                     LET u == [t EXCEPT !.off = t.off + 1, !.fault = IF damaged THEN "damaged" ELSE t.fault]
                     IN IF u.off = Len(body) THEN [u EXCEPT !.pc = "replace", !.at = <<>>] ELSE u]
    /\ UNCHANGED <<config, manifest_file, pc, cur, yielded, producer, http_task, err, history, aux>>

\* next_chunk raises HttpError.
DriveChunkFail(d) ==
    /\ d \in DOMAIN drive_task
    /\ drive_task[d].pc = "chunk"
    /\ drive_task' = [drive_task EXCEPT ![d].pc = "except", ![d].at = <<>>, ![d].fault = "http_error"]
    /\ UNCHANGED <<config, files, manifest_file, pc, cur, yielded, producer, http_task, err, history, aux>>

\* tmp_path.replace(dest_path).
DriveReplace(d) ==
    /\ d \in DOMAIN drive_task
    /\ drive_task[d].pc = "replace"
    /\ files' = Rename(files, DriveTmp(Dest(DriveName(d)), d), Dest(DriveName(d)))
    /\ drive_task' = [drive_task EXCEPT ![d].pc = "verify"]
    /\ UNCHANGED <<config, manifest_file, pc, cur, yielded, producer, http_task, err, history, aux>>

\* A faulty variant of the post-download verification: nothing is checked.
DriveVerifiedUnchecked(fls, d) == TRUE
\* The post-download verification of the destination.
DriveVerified(fls, d) == ~verify_downloads \/ VerifyLocalFile(fls, Dest(DriveName(d)), Meta(d).size, Meta(d).md5Checksum)
DriveVerify(d) ==
    /\ d \in DOMAIN drive_task
    /\ drive_task[d].pc = "verify"
    /\ drive_task' = [drive_task EXCEPT ![d].pc = IF DriveVerified(files, d) THEN "done" ELSE "except"]
    /\ UNCHANGED <<config, files, manifest_file, pc, cur, yielded, producer, http_task, err, history, aux>>

\* A faulty variant of the except clause: the temp file is left behind.
ExceptCleanupKeepsTemp(fls, d) == IF Exists(fls, Dest(DriveName(d))) THEN Unlink(fls, Dest(DriveName(d))) ELSE fls
\* The except clause: the temp file and the destination are unlinked, then raise.
ExceptCleanup(fls, d) ==
    LET tmp == DriveTmp(Dest(DriveName(d)), d)
        f1 == IF Exists(fls, tmp) THEN Unlink(fls, tmp) ELSE fls
    IN IF Exists(f1, Dest(DriveName(d))) THEN Unlink(f1, Dest(DriveName(d))) ELSE f1
DriveExcept(d) ==
    /\ d \in DOMAIN drive_task
    /\ drive_task[d].pc = "except"
    /\ files' = ExceptCleanup(files, d)
    /\ drive_task' = [drive_task EXCEPT ![d].pc = "failed"]
    /\ UNCHANGED <<config, manifest_file, pc, cur, yielded, producer, http_task, err, history, aux>>

\* ---------------------------------------------------------------- specification

Next ==
    \/ HttpSubmit
    \/ HttpSkip
    \/ \E i \in DOMAIN http_task : HttpPick(i)
    \/ \E i \in DOMAIN http_task : HttpGetOk(i)
    \/ \E i \in DOMAIN http_task : HttpGetFail(i)
    \/ \E i \in DOMAIN http_task : HttpWrite(i)
    \/ \E i \in DOMAIN http_task : HttpWriteFail(i)
    \/ \E i \in DOMAIN http_task : HttpRename(i)
    \/ HttpDrainRaise
    \/ HttpDrainDone
    \/ FolderStart
    \/ DownloadAllReturn
    \/ \E id \in DriveIds : ListEntry(id)
    \/ ListError
    \/ FinishListing
    \/ DrainRaise
    \/ DrainDone
    \/ \E d \in DriveIds : DrivePick(d)
    \/ \E d \in DriveIds, damaged \in BOOLEAN : DriveChunk(d, damaged)
    \/ \E d \in DriveIds : DriveChunkFail(d)
    \/ \E d \in DriveIds : DriveReplace(d)
    \/ \E d \in DriveIds : DriveVerify(d)
    \/ \E d \in DriveIds : DriveExcept(d)

Spec == Init /\ [][Next]_vars

\* A second download_all call on the same Downloader, with overwrite=False,
\* after the first one returned: the remote folders list the same files.
Rerun ==
    /\ pc = "returned"
    /\ run = 1
    /\ run' = 2
    /\ overwrite' = FALSE
    /\ first_manifest' = manifest_file
    /\ pc' = "start"
    /\ cur' = 0
    /\ yielded' = <<>>
    /\ futures' = <<>>
    /\ http_task' = [i \in DOMAIN http_task |-> Idle]
    /\ drive_task' = [d \in {} |-> Idle]
    /\ UNCHANGED <<http_items, n_folders, manifest_only, verify_only, verify_downloads, max_http_workers, max_drive_workers>>
    /\ UNCHANGED <<files, manifest_file, manifest, seen_md5_by_path, conflict_md5s_by_path, skipped_duplicate_count, err, listed, disk0, aux>>

NextRerun == Next \/ Rerun
SpecRerun == Init /\ [][NextRerun]_vars

\* A normal-mode download_all with overwrite=True into an empty target_root
\* (every listed file that is not a duplicate is scheduled), with threads that
\* keep being scheduled: some enabled step is eventually taken.
InitFair == Init /\ ~manifest_only /\ ~verify_only /\ overwrite /\ files = NoFiles
SpecFair == InitFair /\ [][Next]_vars /\ WF_vars(Next)

\* download_all under a caller that may interrupt it.
NextInterrupt == Next \/ Interrupt
SpecInterrupt == Init /\ [][NextInterrupt]_vars

\* ---------------------------------------------------------------- downloads/cli.py

\* Most *.yaml files in the config directory.
MaxConfigs == 3

\* download_all standing still while main is studied.
DownloaderOff ==
    /\ http_items = <<>> /\ n_folders = 0
    /\ manifest_only = FALSE /\ verify_only = FALSE /\ verify_downloads = TRUE /\ overwrite = FALSE
    /\ max_http_workers = 1 /\ max_drive_workers = 1
    /\ files = NoFiles /\ manifest_file = None /\ pc = "off" /\ cur = 0 /\ yielded = <<>>
    /\ manifest = <<>> /\ seen_md5_by_path = EmptyMap /\ conflict_md5s_by_path = EmptyMap
    /\ skipped_duplicate_count = 0 /\ futures = <<>>
    /\ http_task = <<>> /\ drive_task = [d \in {} |-> Idle] /\ err = "none"
    /\ run = 1 /\ listed = <<>> /\ first_manifest = None /\ disk0 = NoFiles

\* main after parse_args: mode is "all" (--all), "source" (a source name) or
\* "none"; n_yaml the number of *.yaml files in the config directory;
\* source_exists whether <source>.yaml exists. config_paths are numbered in
\* sorted order; outcomes records per processed config whether Downloader(...)
\* raised ("config_error"), download_all raised ("download_error") or neither.
InitCli ==
    /\ DownloaderOff
    /\ walk = WalkOff
    /\ loader = LoaderOff
    /\ creds = CredsOff
    /\ dedupe = DedupeOff
    /\ verifier = VerifierOff
    /\ cli \in {[pc |-> "args", mode |-> m, n_yaml |-> n, source_exists |-> b, n_paths |-> 0, outcomes |-> <<>>, failed |-> <<>>, exit_code |-> None] :
                m \in {"all", "source", "none"}, n \in 0..MaxConfigs, b \in BOOLEAN}

\* "Determine which configs to process": the three branches and their exits.
CliSelect ==
    /\ cli.pc = "args"
    /\ cli' = IF cli.mode = "all"
              THEN IF cli.n_yaml = 0 THEN [cli EXCEPT !.pc = "exited", !.exit_code = Some(1)]
                   ELSE [cli EXCEPT !.pc = "loop", !.n_paths = cli.n_yaml]
              ELSE IF cli.mode = "source"
              THEN IF ~cli.source_exists THEN [cli EXCEPT !.pc = "exited", !.exit_code = Some(1)]
                   ELSE [cli EXCEPT !.pc = "loop", !.n_paths = 1]
              ELSE [cli EXCEPT !.pc = "exited", !.exit_code = Some(1)]
    /\ UNCHANGED but_cli

\* A faulty variant of the except clause: the failure is not recorded.
TallyNothing(failed, name, outcome) == failed
\* The except clause: the name of a failed config is appended to failed.
Tally(failed, name, outcome) == IF outcome = "ok" THEN failed ELSE Append(failed, name)

\* One iteration of the loop over config_paths: the constructor and
\* download_all run inside the try; an Exception is caught and the loop continues.
CliProcess(outcome) ==
    /\ cli.pc = "loop"
    /\ Len(cli.outcomes) < cli.n_paths
    /\ cli' = [cli EXCEPT !.outcomes = Append(@, outcome), !.failed = Tally(@, Len(cli.outcomes) + 1, outcome)]
    /\ UNCHANGED but_cli

\* After the loop: sys.exit(1) when failed is not empty, else main returns.
CliFinish ==
    /\ cli.pc = "loop"
    /\ Len(cli.outcomes) = cli.n_paths
    /\ cli' = [cli EXCEPT !.pc = "exited", !.exit_code = IF cli.failed # <<>> THEN Some(1) ELSE Some(0)]
    /\ UNCHANGED but_cli

NextCli ==
    \/ CliSelect
    \/ \E outcome \in {"ok", "config_error", "download_error"} : CliProcess(outcome)
    \/ CliFinish
SpecCli == InitCli /\ [][NextCli]_vars

\* ---------------------------------------------------------------- _walk_folder

\* Most children of the root folder, and the largest page the server returns.
MaxChildren == 3
MaxPage == 2

\* The remote tree: folder R is the item's folder_id; folder A holds file f2
\* and folder C, folder B holds f3, folder C holds f4; R's children are an
\* input. A folder is named by its id; f1 and f2 share the name x.
FolderIds == {"R", "A", "B", "C"}
IsFolder(id) == id \in FolderIds
ItemName(id) == CASE id \in {"f1", "f2"} -> "x"
                  [] id = "f3" -> "y"
                  [] id = "f4" -> "z"
                  [] OTHER -> id
RootChildren == {q \in SeqsUpTo({"f1", "A", "B"}, MaxChildren) : Distinct(q)}
Tree(root_children, a_children) == [f \in FolderIds |-> CASE f = "R" -> root_children
                                                          [] f = "A" -> a_children
                                                          [] f = "B" -> <<"f3">>
                                                          [] OTHER -> <<"f4">>]
Trees == {Tree(rc, ac) : rc \in RootChildren, ac \in {<<"f2", "C">>, <<"C", "f2">>}}

\* files().list for one page: the children of a folder come in server order,
\* size per page; nextPageToken is present while children remain.
PageOf(children, k, size) == SubSeq(children, (k - 1) * size + 1, IF k * size < Len(children) THEN k * size ELSE Len(children))
\* A faulty variant of the page loop: the first page is taken for the last.
HasNextPageNever(children, k, size) == FALSE
HasNextPage(children, k, size) == k * size < Len(children)

\* A faulty variant of the folder branch: recursive is not looked at.
DescendAlways(id, recursive) == IsFolder(id)
\* The two branches of the loop over a page's items.
Descend(id, recursive) == IsFolder(id) /\ recursive
Yields(id) == ~IsFolder(id)

\* The stack and the yielded pairs after the items of one page, in order.
RECURSIVE Pushed(_, _, _, _)
Pushed(stack, items, local, recursive) ==
    IF items = <<>> THEN stack
    ELSE Pushed(IF Descend(Head(items), recursive) THEN Append(stack, <<Head(items), local \o <<ItemName(Head(items))>>>>) ELSE stack, Tail(items), local, recursive)
RECURSIVE YieldedFrom(_, _, _, _)
YieldedFrom(out, items, local, recursive) ==
    IF items = <<>> THEN out
    ELSE YieldedFrom(IF ~Descend(Head(items), recursive) /\ Yields(Head(items)) THEN Append(out, <<Head(items), local \o <<ItemName(Head(items))>>>>) ELSE out, Tail(items), local, recursive)

\* The generator at its start: the stack holds (folder_id, local_root), the
\* local root being target_root (the empty relative path).
InitWalk ==
    /\ DownloaderOff
    /\ cli = CliOff
    /\ loader = LoaderOff
    /\ creds = CredsOff
    /\ dedupe = DedupeOff
    /\ verifier = VerifierOff
    /\ walk \in {[pc |-> "pop", tree |-> t, page_size |-> ps, recursive |-> r, stack |-> <<<<"R", <<>>>>>>, folder |-> "", local |-> <<>>, page |-> 0, out |-> <<>>, requests |-> <<>>] :
                 t \in Trees, ps \in 1..MaxPage, r \in BOOLEAN}

\* A faulty variant of the pop: the oldest seed is taken.
PopOldest(stack) == [top |-> Head(stack), rest |-> Tail(stack)]
\* list.pop(): the last seed appended, and the stack without it.
Pop(stack) == [top |-> stack[Len(stack)], rest |-> SubSeq(stack, 1, Len(stack) - 1)]

\* while stack: stack.pop() and page_token = None.
WalkPop ==
    /\ walk.pc = "pop"
    /\ walk.stack # <<>>
    /\ LET top == Pop(walk.stack).top
       IN walk' = [walk EXCEPT !.pc = "list", !.stack = Pop(@).rest, !.folder = top[1], !.local = top[2], !.page = 1]
    /\ UNCHANGED but_walk

\* The stack is empty: the generator is exhausted.
WalkReturn ==
    /\ walk.pc = "pop"
    /\ walk.stack = <<>>
    /\ walk' = [walk EXCEPT !.pc = "done"]
    /\ UNCHANGED but_walk

\* One list request and the loop over its files; then the next page, or the
\* next folder of the stack.
WalkPage ==
    /\ walk.pc = "list"
    /\ LET children == walk.tree[walk.folder]
           items == PageOf(children, walk.page, walk.page_size)
           more == HasNextPage(children, walk.page, walk.page_size)
       IN walk' = [walk EXCEPT !.requests = Append(@, <<walk.folder, walk.page>>),
                               !.stack = Pushed(@, items, walk.local, walk.recursive),
                               !.out = YieldedFrom(@, items, walk.local, walk.recursive),
                               !.page = IF more THEN @ + 1 ELSE @,
                               !.pc = IF more THEN "list" ELSE "pop"]
    /\ UNCHANGED but_walk

\* The list request raises HttpError: logged and re-raised out of the generator.
WalkListError ==
    /\ walk.pc = "list"
    /\ walk' = [walk EXCEPT !.pc = "error"]
    /\ UNCHANGED but_walk

NextWalk == WalkPop \/ WalkReturn \/ WalkPage \/ WalkListError
SpecWalk == InitWalk /\ [][NextWalk]_vars

\* A walk in which no list request fails and the consumer keeps asking for
\* the next entry: the generator is resumed until it is exhausted.
NextWalkOk == WalkPop \/ WalkReturn \/ WalkPage
SpecWalkOk == InitWalk /\ [][NextWalkOk]_vars /\ WF_vars(NextWalkOk)

\* ---------------------------------------------------------------- _load_config

\* Most entries of a config's items list.
MaxItems == 2

\* A faulty variant of the truth test: an empty value passes.
TruthyPresent(opt) == opt # None
\* `if not value` on a value read with dict.get: absent (None) and the empty
\* string are false.
Truthy(opt) == opt # None /\ opt[1] # ""

\* The entries an items list can hold: a scalar (mapping = FALSE), or a mapping
\* with kind, url and folder_id absent (None) or given.
ItemDocs ==
    {[mapping |-> FALSE, kind |-> None, url |-> None, folder_id |-> None]}
    \cup [mapping : {TRUE}, kind : {None, Some("http_file")}, url : {None, Some(""), Some("u")}, folder_id : {None}]
    \cup [mapping : {TRUE}, kind : {Some("gdrive_folder")}, url : {None, Some("u")}, folder_id : {None, Some(""), Some("F")}]
    \cup [mapping : {TRUE}, kind : {Some("ftp")}, url : {Some("u")}, folder_id : {None}]
\* The config documents: the file may be missing, its root may be a mapping or
\* not; source, output_dir and items may be absent.
ConfigDocs ==
    [exists : BOOLEAN,
     root_mapping : BOOLEAN,
     source : {None, Some(""), Some("src")},
     output_dir : {None, Some("cfg_dir")},
     items : {None} \cup {Some(q) : q \in SeqsUpTo(ItemDocs, MaxItems)}]

\* What _load_config gives: a SourceConfig, or the exception raised.
Loaded(cfg) == [ok |-> TRUE, error |-> "", config |-> Some(cfg)]
Rejected(why) == [ok |-> FALSE, error |-> why, config |-> None]

\* The body of the loop over items_raw for one entry.
ParseItem(item) ==
    IF ~item.mapping THEN Rejected("Each item in 'items' must be a mapping")
    ELSE LET kind == IF item.kind = None THEN "http_file" ELSE item.kind[1]
         IN IF kind = "http_file"
            THEN IF ~Truthy(item.url) THEN Rejected("http_file item missing required 'url'")
                 ELSE Loaded([kind |-> "http_file", url |-> item.url, folder_id |-> None])
            ELSE IF kind = "gdrive_folder"
            THEN IF ~Truthy(item.folder_id) THEN Rejected("gdrive_folder item missing 'folder_id'")
                 ELSE Loaded([kind |-> "gdrive_folder", url |-> None, folder_id |-> item.folder_id])
            ELSE Rejected("Unknown item kind")
\* The loop: items are appended in order, the first bad entry raises.
RECURSIVE ParseItems(_, _)
ParseItems(items, raw) ==
    IF raw = <<>> THEN Loaded(items)
    ELSE LET one == ParseItem(Head(raw))
         IN IF one.ok THEN ParseItems(Append(items, one.config[1]), Tail(raw)) ELSE one

\* "Determine output directory".
OutputRoot(doc, base_output_dir) ==
    IF base_output_dir # None THEN base_output_dir[1]
    ELSE IF doc.output_dir = None THEN "downloads/datasets" ELSE doc.output_dir[1]

LoadConfig(doc, base_output_dir) ==
    IF ~doc.exists THEN Rejected("Config file not found")
    ELSE IF ~doc.root_mapping THEN Rejected("Config must be a mapping at root")
    ELSE IF ~Truthy(doc.source) THEN Rejected("Config is missing required key: 'source'")
    ELSE LET items_raw == IF doc.items = None THEN <<>> ELSE doc.items[1]
         IN IF items_raw = <<>> THEN Rejected("Config must contain a non-empty 'items' list")
            ELSE LET parsed == ParseItems(<<>>, items_raw)
                 IN IF parsed.ok
                    THEN Loaded([source |-> doc.source[1], output_dir |-> OutputRoot(doc, base_output_dir), items |-> parsed.config[1]])
                    ELSE parsed

\* One call of _load_config, on any document and with or without a base
\* output directory.
InitLoad ==
    /\ DownloaderOff
    /\ cli = CliOff
    /\ walk = WalkOff
    /\ creds = CredsOff
    /\ dedupe = DedupeOff
    /\ verifier = VerifierOff
    /\ loader \in {[pc |-> "call", doc |-> d, base_output_dir |-> b, result |-> Rejected("")] : d \in ConfigDocs, b \in {None, Some("base_dir")}}

LoadConfigReturns ==
    /\ loader.pc = "call"
    /\ LoadConfig(loader.doc, loader.base_output_dir).ok
    /\ loader' = [loader EXCEPT !.pc = "returned", !.result = LoadConfig(loader.doc, loader.base_output_dir)]
    /\ UNCHANGED but_loader

LoadConfigRaises ==
    /\ loader.pc = "call"
    /\ ~LoadConfig(loader.doc, loader.base_output_dir).ok
    /\ loader' = [loader EXCEPT !.pc = "raised", !.result = LoadConfig(loader.doc, loader.base_output_dir)]
    /\ UNCHANGED but_loader

NextLoad == LoadConfigReturns \/ LoadConfigRaises
SpecLoad == InitLoad /\ [][NextLoad]_vars

\* ---------------------------------------------------------------- Drive credentials

\* Most Drive pool threads that fetch for one folder item.
MaxThreads == 3

\* Thread 0 is the orchestrator's thread (_download_gdrive_folder), threads
\* 1..n the pool threads that run _download_gdrive_file.
\* How the Downloader is set up: a service account file, an OAuth token file
\* that is valid, one that is expired with a refresh token, none (consent
\* flow), or no credentials file at all.
CredModes == {"service_account", "token_valid", "token_expired", "no_token", "missing_file"}

\* A faulty variant of the start condition: pool threads run from the start.
MayStartAnytime(t) == TRUE
\* A pool thread runs a submitted call; calls are submitted after the
\* orchestrator's own _get_drive_service() call returned.
MayStart(t) == t = 0 \/ creds.th[0].pc = "ready"

\* One Downloader before its first _get_drive_service call: _drive_credentials
\* is None and no thread has a client. loads and token_writes count the runs
\* of the load/refresh/consent sequence and of the token-file write; in_seq is
\* the set of threads inside the sequence, overlap whether two were at once.
InitCreds ==
    /\ DownloaderOff
    /\ cli = CliOff
    /\ walk = WalkOff
    /\ loader = LoaderOff
    /\ dedupe = DedupeOff
    /\ verifier = VerifierOff
    /\ creds \in {[pc |-> "on", mode |-> m, drive_credentials |-> None, loads |-> 0, token_writes |-> 0, in_seq |-> {}, overlap |-> FALSE,
                   th |-> [t \in 0..n |-> [pc |-> "idle", obj |-> None, service |-> None]]] :
                  m \in CredModes, n \in 1..MaxThreads}

\* _get_drive_service: the thread has no client yet.
GetService(t) ==
    /\ creds.pc = "on"
    /\ t \in DOMAIN creds.th
    /\ creds.th[t].pc = "idle"
    /\ MayStart(t)
    /\ creds' = [creds EXCEPT !.th[t].pc = "check"]
    /\ UNCHANGED but_creds

\* _get_drive_credentials: the cached credentials are returned, or the
\* sequence is entered.
CheckCreds(t) ==
    /\ creds.pc = "on"
    /\ t \in DOMAIN creds.th
    /\ creds.th[t].pc = "check"
    /\ creds' = IF creds.drive_credentials # None
                THEN [creds EXCEPT !.th[t].pc = "build", !.th[t].obj = creds.drive_credentials]
                ELSE [creds EXCEPT !.th[t].pc = "load", !.loads = @ + 1, !.in_seq = @ \cup {t}, !.overlap = @ \/ creds.in_seq # {}]
    /\ UNCHANGED but_creds

\* The sequence: service account file, or token file, refresh or consent flow.
\* A missing credentials file raises. The credentials object made by thread t
\* is object t.
LoadCreds(t) ==
    /\ creds.pc = "on"
    /\ t \in DOMAIN creds.th
    /\ creds.th[t].pc = "load"
    /\ creds' = IF creds.mode = "missing_file"
                THEN [creds EXCEPT !.th[t].pc = "raised", !.in_seq = @ \ {t}]
                ELSE IF creds.mode \in {"service_account", "token_valid"}
                THEN [creds EXCEPT !.th[t].pc = "store", !.th[t].obj = Some(t)]
                ELSE [creds EXCEPT !.th[t].pc = "write_token", !.th[t].obj = Some(t)]
    /\ UNCHANGED but_creds

\* self._token_file.write_text(creds.to_json()).
WriteToken(t) ==
    /\ creds.pc = "on"
    /\ t \in DOMAIN creds.th
    /\ creds.th[t].pc = "write_token"
    /\ creds' = [creds EXCEPT !.th[t].pc = "store", !.token_writes = @ + 1]
    /\ UNCHANGED but_creds

\* self._drive_credentials = creds; return creds.
StoreCreds(t) ==
    /\ creds.pc = "on"
    /\ t \in DOMAIN creds.th
    /\ creds.th[t].pc = "store"
    /\ creds' = [creds EXCEPT !.th[t].pc = "build", !.drive_credentials = creds.th[t].obj, !.in_seq = @ \ {t}]
    /\ UNCHANGED but_creds

\* build("drive", "v3", credentials=credentials), kept in the thread's local.
BuildService(t) ==
    /\ creds.pc = "on"
    /\ t \in DOMAIN creds.th
    /\ creds.th[t].pc = "build"
    /\ creds' = [creds EXCEPT !.th[t].pc = "ready", !.th[t].service = creds.th[t].obj]
    /\ UNCHANGED but_creds

NextCreds == \E t \in 0..MaxThreads : GetService(t) \/ CheckCreds(t) \/ LoadCreds(t) \/ WriteToken(t) \/ StoreCreds(t) \/ BuildService(t)
SpecCreds == InitCreds /\ [][NextCreds]_vars

\* ---------------------------------------------------------------- downloads/dedupe.py

\* Manifests of up to MaxEntries entries, and up to MaxCalls calls on one
\* dataset directory.
MaxEntries == 3
MaxCalls == 2

\* The entries a manifest holds: what the downloader writes for the files of
\* the remote world.
Entries == {ManifestEntry(Meta(id)) : id \in DriveIds}
\* What .manifest.json can hold before the first call.
ManifestTexts == {ToJson(mf) : mf \in SeqsUpTo(Entries, MaxEntries)}
\* _load_manifest: json.loads; entry.get(key) is None for a null value.
LoadManifest(text) == [i \in 1..Len(text) |-> [id |-> text[i][2], path |-> Some(text[i][4]), md5 |-> text[i][6], size |-> text[i][8]]]
\* json.dumps(entries, indent=2) of loaded entries.
DumpManifest(entries) == [i \in 1..Len(entries) |-> <<"id", entries[i].id, "path", entries[i].path[1], "md5", entries[i].md5, "size", entries[i].size>>]

\* The locals of the loop before the first entry.
DedupeStart == [seen_keys |-> {}, md5s_by_path |-> EmptyMap, deduped |-> <<>>, duplicates_removed |-> 0, md5_missing |-> 0]
\* A faulty variant of the loop body: the key is the path alone.
DedupeStepByPath(st, entry) ==
    IF entry.md5 = None
    THEN [st EXCEPT !.md5_missing = @ + 1, !.deduped = Append(@, entry)]
    ELSE IF entry.path \in st.seen_keys
    THEN [st EXCEPT !.duplicates_removed = @ + 1]
    ELSE [st EXCEPT !.seen_keys = @ \cup {entry.path}, !.deduped = Append(@, entry)]
\* The loop body: an entry without md5 is kept; a seen (path, md5) key is
\* dropped; a new key is noted and the entry kept.
DedupeStep(st, entry) ==
    LET rel_path == entry.path
        md5 == entry.md5
        key == <<rel_path, md5>>
    IN IF md5 = None
       THEN [st EXCEPT !.md5_missing = @ + 1, !.deduped = Append(@, entry)]
       ELSE IF key \in st.seen_keys
       THEN [st EXCEPT !.duplicates_removed = @ + 1]
       ELSE [st EXCEPT !.seen_keys = @ \cup {key},
                       !.md5s_by_path = IF rel_path # None
                                        THEN [q \in DOMAIN @ \cup {rel_path[1]} |-> (IF q \in DOMAIN @ THEN @[q] ELSE {}) \cup (IF q = rel_path[1] THEN {md5[1]} ELSE {})]
                                        ELSE @,
                       !.deduped = Append(@, entry)]
\* The loop over the first k entries.
RECURSIVE DedupeLoop(_, _)
DedupeLoop(entries, k) == IF k = 0 THEN DedupeStart ELSE DedupeStep(DedupeLoop(entries, k - 1), entries[k])
\* conflict_paths: the paths noted with more than one md5.
ConflictPaths(md5s_by_path) == [q \in {r \in DOMAIN md5s_by_path : Cardinality(md5s_by_path[r]) > 1} |-> md5s_by_path[q]]
\* The report: the stats and the conflicts.
Report(entries, st) ==
    [entries_before |-> Len(entries),
     entries_after |-> Len(st.deduped),
     duplicates_removed |-> st.duplicates_removed,
     md5_missing_entries |-> st.md5_missing,
     conflicting_paths |-> Cardinality(DOMAIN ConflictPaths(st.md5s_by_path)),
     conflicts_sample |-> ConflictPaths(st.md5s_by_path)]

\* A dataset directory with or without .manifest.json, before the first call.
InitDedupe ==
    /\ DownloaderOff
    /\ cli = CliOff /\ walk = WalkOff /\ loader = LoaderOff /\ creds = CredsOff /\ verifier = VerifierOff
    /\ \E mf \in {None} \cup {Some(t) : t \in ManifestTexts} :
           dedupe = [pc |-> "on", manifest_file |-> mf, backups |-> <<>>, report_file |-> None, calls |-> 0, applied |-> FALSE, last |-> None]

\* dedupe_manifest: load, dedupe, write the backup and the manifest, write
\* the report, return it. report_file is the default or another file of its own.
DedupeManifest(dry_run, backup) ==
    /\ dedupe.pc = "on"
    /\ dedupe.calls < MaxCalls
    /\ dedupe.manifest_file # None
    /\ LET entries == LoadManifest(dedupe.manifest_file[1])
           st == DedupeLoop(entries, Len(entries))
           report == Report(entries, st)
       IN dedupe' = [dedupe EXCEPT
              !.backups = IF ~dry_run /\ backup /\ st.duplicates_removed # 0 THEN Append(@, DumpManifest(entries)) ELSE @,
              !.manifest_file = IF ~dry_run /\ st.duplicates_removed # 0 THEN Some(DumpManifest(st.deduped)) ELSE @,
              !.report_file = Some(report),
              !.calls = @ + 1,
              !.applied = @ \/ ~dry_run,
              !.last = Some([dry_run |-> dry_run, backup |-> backup, raised |-> FALSE, before |-> dedupe.manifest_file, backups_before |-> dedupe.backups, applied_before |-> dedupe.applied, returned |-> Some(report)])]
    /\ UNCHANGED but_dedupe

\* dedupe_manifest without .manifest.json: FileNotFoundError, nothing written.
DedupeManifestRaises(dry_run, backup) ==
    /\ dedupe.pc = "on"
    /\ dedupe.calls < MaxCalls
    /\ dedupe.manifest_file = None
    /\ dedupe' = [dedupe EXCEPT
           !.calls = @ + 1,
           !.last = Some([dry_run |-> dry_run, backup |-> backup, raised |-> TRUE, before |-> dedupe.manifest_file, backups_before |-> dedupe.backups, applied_before |-> dedupe.applied, returned |-> None])]
    /\ UNCHANGED but_dedupe

NextDedupe == \E dry_run, backup \in BOOLEAN : DedupeManifest(dry_run, backup) \/ DedupeManifestRaises(dry_run, backup)
SpecDedupe == InitDedupe /\ [][NextDedupe]_vars

\* ---------------------------------------------------------------- _verify_local_file

\* Files of up to MaxBytes blocks.
MaxBytes == 2

\* The expectations a caller can pass to the verifier: no size or a size, no
\* md5 or the md5 of some content.
ExpectedSizes == {None} \cup {Some(n) : n \in 0..2}
ExpectedMd5s == {None} \cup {Some(Md5(b)) : b \in {<<>>, <<1>>}}
\* The disks the verifier is called on: those before a run, and a disk with
\* one final path holding any content, whole or damaged.
VerifierDisks == InitDisks \cup {[q \in {p} |-> b] : p \in FinalPaths, b \in SeqsUpTo(0..2, MaxBytes)}

\* A disk and the verify_downloads setting; nothing else moves.
InitVerify ==
    /\ http_items = <<>> /\ n_folders = 0
    /\ manifest_only = FALSE /\ verify_only = FALSE /\ verify_downloads \in BOOLEAN /\ overwrite = FALSE
    /\ max_http_workers = 1 /\ max_drive_workers = 1
    /\ files \in VerifierDisks /\ manifest_file = None /\ pc = "off" /\ cur = 0 /\ yielded = <<>>
    /\ manifest = <<>> /\ seen_md5_by_path = EmptyMap /\ conflict_md5s_by_path = EmptyMap
    /\ skipped_duplicate_count = 0 /\ futures = <<>>
    /\ http_task = <<>> /\ drive_task = [d \in {} |-> Idle] /\ err = "none"
    /\ run = 1 /\ listed = <<>> /\ first_manifest = None /\ disk0 = files
    /\ cli = CliOff /\ walk = WalkOff /\ loader = LoaderOff /\ creds = CredsOff /\ dedupe = DedupeOff
    /\ verifier = [pc |-> "on", last |-> None]

\* One call of _verify_local_file and what it returned.
VerifyCall(path, expected_size, expected_md5) ==
    /\ verifier.pc = "on"
    /\ verifier' = [verifier EXCEPT !.last = Some([path |-> path, expected_size |-> expected_size, expected_md5 |-> expected_md5,
                                                  result |-> VerifyLocalFile(files, path, expected_size, expected_md5)])]
    /\ UNCHANGED but_verifier

NextVerify == \E path \in FinalPaths, expected_size \in ExpectedSizes, expected_md5 \in ExpectedMd5s : VerifyCall(path, expected_size, expected_md5)
SpecVerify == InitVerify /\ [][NextVerify]_vars

\* ---------------------------------------------------------------- properties

\* The persisted JSON array (empty when no manifest was written) and the
\* fields of its objects.
Persisted == IF manifest_file = None THEN <<>> ELSE manifest_file[1]
JsonId(o) == o[2]
JsonPath(o) == o[4]
JsonMd5(o) == o[6]
JsonSize(o) == o[8]
\* The ids of the persisted array, in order.
PersistedIds == [k \in 1..Len(Persisted) |-> JsonId(Persisted[k])]
\* The manifest of the current folder item has been written.
ManifestWritten == yielded # <<>> /\ (pc \in {"drain", "folder", "returned"} \/ (pc = "raised" /\ err \in {"drive", "verify"}))
\* Two Drive files are the same (path, md5) pair, md5 present.
SamePair(a, b) == DriveName(a) = DriveName(b) /\ Meta(a).md5Checksum # None /\ Meta(a).md5Checksum = Meta(b).md5Checksum

\* The complete bytes a transfer of body can leave: as sent, or with damaged blocks.
Variants(body) == {b \in [1..Len(body) -> {0} \cup Range(body)] : \A i \in 1..Len(body) : b[i] \in {0, body[i]}}
\* The complete contents path p can hold: what it held before the run, the body
\* of an HTTP item of the config that resolves to p, a Drive file named p.
Deliveries(p) ==
    (IF p \in DOMAIN disk0 THEN {disk0[p]} ELSE {})
    \cup {HttpBytes(http_items[i]) : i \in {j \in DOMAIN http_task : HttpDest(http_items[j]) = p}}
    \cup UNION {Variants(DriveBytes(d)) : d \in {e \in DriveIds : Dest(DriveName(e)) = p}}
\* The paths some worker holds open for writing.
OpenHandles == {http_task[i].at : i \in DOMAIN http_task} \cup {drive_task[d].at : d \in DOMAIN drive_task}

\* C1, as stated: at every instant every existing final destination path holds
\* the complete bytes of one finished download (or what it held before), and
\* no worker is writing to it: bytes reach it by an atomic rename only.
C1_FinalPathsComplete == \A p \in DOMAIN files \cap FinalPaths : p \notin OpenHandles /\ files[p] \in Deliveries(p)

\* A persisted entry carries both md5 and size.
Checked(o) == JsonMd5(o) # None /\ JsonSize(o) # None
\* The file at the entry's path has the entry's size and md5.
Matches(o) == Dest(JsonPath(o)) \in DOMAIN files /\ Len(files[Dest(JsonPath(o))]) = JsonSize(o)[1] /\ Md5(files[Dest(JsonPath(o))]) = JsonMd5(o)[1]
\* No persisted entry of the same path carries another md5, or none.
Unshared(o) == \A k \in 1..Len(Persisted) : JsonPath(Persisted[k]) = JsonPath(o) => JsonMd5(Persisted[k]) = JsonMd5(o)
\* download_all returned without error from a normal-mode run with verification.
VerifiedReturn == pc = "returned" /\ verify_downloads /\ ~manifest_only /\ ~verify_only

\* C2, as stated: after a verified normal-mode run returned, the file of every
\* persisted entry with md5 and size has that size and md5, for every listing.
C2_EveryEntryOnDisk == VerifiedReturn => \A k \in 1..Len(Persisted) : Checked(Persisted[k]) => Matches(Persisted[k])
\* C2, amended: after a verified normal-mode run returned, the file of every
\* persisted entry with md5 and size whose path no entry of another (or no)
\* md5 shares has that size and md5, for every completion order of the workers.
C2_UnsharedEntryOnDisk == VerifiedReturn => \A k \in 1..Len(Persisted) : Checked(Persisted[k]) /\ Unshared(Persisted[k]) => Matches(Persisted[k])
\* A verified run returned after fetching a file whose entry is checked.
C2_Witness == VerifiedReturn /\ \E k \in 1..Len(Persisted) : Checked(Persisted[k]) /\ Unshared(Persisted[k]) /\ JsonId(Persisted[k]) \in DOMAIN drive_task /\ drive_task[JsonId(Persisted[k])].pc = "done"

\* C3: once the manifest of a folder item is written, the persisted entries are
\* the files the walker yielded, in the walker's order (E1 before E2), whatever
\* the order in which the downloads complete.
C3_EnumerationOrder == ManifestWritten => PersistedIds = yielded
\* The second file yielded is fetched before the first one.
C3_Witness == pc = "drain" /\ Len(yielded) = 2 /\ PersistedIds = yielded /\ yielded[1] \in DOMAIN drive_task /\ yielded[2] \in DOMAIN drive_task /\ drive_task[yielded[2]].pc = "done" /\ drive_task[yielded[1]].pc \in {"queued", "chunk"}

C5_DedupeScheduling ==
    ~ListOnly =>
        /\ \A i, j \in 1..Len(futures) : i < j => ~SamePair(futures[i], futures[j])
        /\ skipped_duplicate_count = Cardinality({j \in 1..Len(yielded) : \E i \in 1..(j - 1) : SamePair(yielded[i], yielded[j])})
\* A listing with a repeated pair: one download scheduled, one skipped.
C5_Witness == ~ListOnly /\ Len(yielded) = 2 /\ SamePair(yielded[1], yielded[2]) /\ Len(futures) = 1 /\ skipped_duplicate_count = 1

\* The folder listed exactly a then b, the same path with two different md5
\* values; both downloads were scheduled, received their bytes as sent, and
\* have terminated.
ConflictFetched(a, b) ==
    /\ yielded = <<a, b>>
    /\ DriveName(a) = DriveName(b)
    /\ Meta(a).md5Checksum # None /\ Meta(b).md5Checksum # None
    /\ Meta(a).md5Checksum # Meta(b).md5Checksum
    /\ {a, b} \subseteq DOMAIN drive_task
    /\ \A d \in {a, b} : drive_task[d].fault = "none" /\ drive_task[d].pc \in {"done", "failed"}

\* C6, as stated: when a folder lists one path with md5 m1 then m2 and both
\* downloads deliver the correct bytes, then under every interleaving the
\* manifest has two entries, no download fails (the run ends without error) and
\* the file holds one of the two contents.
C6_LastWriterWins ==
    \A a, b \in DriveIds : ConflictFetched(a, b) =>
        /\ Len(manifest) = 2
        /\ drive_task[a].pc = "done" /\ drive_task[b].pc = "done"
        /\ err # "drive"
        /\ Dest(DriveName(a)) \in DOMAIN files
        /\ files[Dest(DriveName(a))] \in {DriveBytes(a), DriveBytes(b)}

\* Over all folder items of the first call, files listed at one path carry the
\* same md5 and the same size.
ConsistentListings == \A f, g \in 1..Len(listed) : \A i \in 1..Len(listed[f]) : \A j \in 1..Len(listed[g]) : DriveName(listed[f][i]) = DriveName(listed[g][j]) => (Meta(listed[f][i]).md5Checksum = Meta(listed[g][j]).md5Checksum /\ Meta(listed[f][i]).size = Meta(listed[g][j]).size)
\* The repeated call fetches nothing, fails at most on a list request, and
\* leaves the manifest of the first call.
NothingRefetched ==
    /\ futures = <<>>
    /\ \A i \in DOMAIN http_task : http_task[i].pc \in {"idle", "queued", "done"}
    /\ err \in {"none", "list"}
    /\ pc = "returned" => manifest_file = first_manifest

\* C7, as stated: a second download_all with overwrite=false after a first one
\* that returned fetches nothing and persists the same manifest, for every listing.
C7_Idempotent == run = 2 => NothingRefetched
\* C7, amended: a second download_all with overwrite=false after a first one
\* that returned schedules no Drive download, fetches no HTTP item and persists
\* the same manifest, provided files listed at one path carry the same md5
\* and size.
C7_IdempotentConsistent == (run = 2 /\ ConsistentListings) => NothingRefetched
\* The second call returned after a first call that changed the disk.
C7_Witness == run = 2 /\ pc = "returned" /\ ConsistentListings /\ ~ListOnly /\ first_manifest # None /\ yielded # <<>> /\ files # disk0

\* No download was scheduled and no file under target_root was touched.
NothingFetched ==
    /\ files = disk0
    /\ futures = <<>>
    /\ DOMAIN drive_task = {}
    /\ \A i \in DOMAIN http_task : http_task[i].pc = "idle"

\* C8: in verify_only mode no HTTP or Drive download is scheduled and every
\* content file under target_root stays as it was, whether verification passes
\* or fails.
C8_VerifyOnlyReadsOnly == verify_only => NothingFetched
\* Verification failed in a verify_only run over a config with an HTTP item.
C8_Witness == verify_only /\ ~manifest_only /\ pc = "raised" /\ err = "verify" /\ yielded # <<>> /\ http_items # <<>>

\* C9: in manifest_only mode no HTTP item is fetched, no Drive download is
\* scheduled, no temp file is created: .manifest.json is the only file written.
C9_ManifestOnlyWritesManifest == manifest_only => (NothingFetched /\ \A p \in DOMAIN files : p \in FinalPaths)
\* A manifest_only run over a config with an HTTP item wrote the manifest.
C9_Witness == manifest_only /\ ~verify_only /\ pc = "returned" /\ manifest_file # None /\ http_items # <<>>

\* A fetch failed: an HTTP request or transfer, or a Drive download.
DownloadFailed == (\E i \in DOMAIN http_task : http_task[i].pc = "failed" /\ http_task[i].fault = "http_error") \/ (\E d \in DOMAIN drive_task : drive_task[d].pc = "failed")

\* C10, as stated: when the failure of a download is raised out of download_all,
\* every HTTP item has terminated and every gdrive_folder item of the config
\* has been listed and its downloads have terminated.
C10_SiblingsProcessed ==
    (pc = "raised" /\ err \in {"http", "drive"} /\ DownloadFailed) =>
        /\ \A i \in DOMAIN http_task : http_task[i].pc \in {"done", "failed"}
        /\ Len(listed) = n_folders
        /\ \A d \in DOMAIN drive_task : drive_task[d].pc \in {"done", "failed"}

\* Every download the folder item scheduled has terminated.
AllTerminated == \A d \in DOMAIN drive_task : drive_task[d].pc \in {"done", "failed"}

\* C11, as stated: in normal mode, when _download_gdrive_folder has returned or
\* has raised a download error, no download it scheduled is pending or running.
C11_DrainedWhenSurfaced == (~ListOnly /\ (pc \in {"folder", "returned"} \/ (pc = "raised" /\ err = "drive"))) => AllTerminated

C13_InterruptKeepsManifest ==
    (pc = "raised" /\ err = "interrupt") =>
        /\ \A d \in DOMAIN drive_task : drive_task[d].pc \in {"done", "failed"} => ~Exists(files, DriveTmp(Dest(DriveName(d)), d))
        /\ yielded # <<>> => (manifest_file # None /\ PersistedIds = yielded)

\* C14: no two Drive tasks share a temp path: a task that is writing holds its
\* own temp file open and no other task holds that path, and a task that has
\* written its last chunk finds in its temp file the bytes it received.
C14_TempPathsDistinct ==
    \A d \in DOMAIN drive_task :
        /\ drive_task[d].pc = "chunk" =>
            /\ drive_task[d].at = DriveTmp(Dest(DriveName(d)), d)
            /\ Exists(files, drive_task[d].at)
            /\ \A e \in DOMAIN drive_task \ {d} : drive_task[e].at # drive_task[d].at
        /\ drive_task[d].pc = "replace" =>
            /\ Exists(files, DriveTmp(Dest(DriveName(d)), d))
            /\ files[DriveTmp(Dest(DriveName(d)), d)] \in Variants(DriveBytes(d))
\* Two downloads for one destination path are writing at the same time.
C14_Witness == \E d, e \in DOMAIN drive_task : d # e /\ DriveName(d) = DriveName(e) /\ drive_task[d].pc = "chunk" /\ drive_task[e].pc = "chunk"

\* The downloads in flight fit the two pools, whose sizes are at least 1.
PoolsBounded ==
    /\ max_drive_workers >= 1 /\ max_http_workers >= 1
    /\ Cardinality(Running(drive_task)) <= max_drive_workers
    /\ Cardinality(Running(http_task)) <= max_http_workers
\* No call waits in a pool's queue.
NoTaskWaiting == (\A i \in DOMAIN http_task : http_task[i].pc # "queued") /\ (\A d \in DOMAIN drive_task : drive_task[d].pc # "queued")

\* C15: at every instant the Drive downloads in flight are at most
\* max_drive_workers and the HTTP downloads in flight at most max_http_workers
\* (both clamped to at least 1), and the calls waiting in the queues are
\* eventually all taken by a worker.
C15_BoundedPools == []PoolsBounded /\ <>[]NoTaskWaiting
\* More Drive downloads are scheduled than the pool has workers: one runs, one waits.
C15_Witness == max_drive_workers = 1 /\ Len(futures) = 2 /\ Cardinality(Running(drive_task)) = 1 /\ \E d \in DOMAIN drive_task : drive_task[d].pc = "queued"

\* A verify_only run has finished the verification of a folder item, or has
\* not verified one yet.
VerifyOnlyEnded == verify_only /\ ~manifest_only /\ (pc \in {"folder", "returned"} \/ (pc = "raised" /\ err = "verify"))
\* An entry of the manifest whose file is missing or fails the verifier for
\* the entry's size and md5.
FailingEntries == {k \in 1..Len(manifest) : ~VerifyLocalFile(files, Dest(manifest[k].path), manifest[k].size, manifest[k].md5)}

\* C16, as stated: in verify_only mode download_all raises if and only if the
\* file of at least one manifest entry is missing or fails the size/md5 check.
C16_FailsIffEntryFails == VerifyOnlyEnded => ((pc = "raised") <=> (FailingEntries # {}))

\* The folder item that finished last in this call had an empty listing.
EmptyFolderDone == run = 1 /\ pc \in {"folder", "returned"} /\ Len(listed) >= 1 /\ listed[Len(listed)] = <<>>

\* C18, as stated: after a folder item with an empty listing no download is
\* scheduled, no error is raised, and .manifest.json lists zero entries.
C18_EmptyFolderEmptyManifest == EmptyFolderDone => (futures = <<>> /\ err = "none" /\ manifest_file = Some(<<>>))

\* The Drive files enumerated by the folder items of this call.
Enumerated == UNION {Range(listed[f]) : f \in 1..Len(listed)}

\* C20, as stated: when download_all has returned, .manifest.json lists every
\* Drive file enumerated during the run, over all gdrive_folder items.
C20_ManifestCoversRun == (run = 1 /\ pc = "returned") => Enumerated \subseteq Range(PersistedIds)

\* main has exited from a run with --all.
AllExited == cli.pc = "exited" /\ cli.mode = "all"
\* Every config was processed, and the exit status is non-zero exactly when
\* one of them failed.
EveryConfigProcessed == Len(cli.outcomes) = cli.n_yaml
NonZeroIffFailed == (cli.exit_code # Some(0)) <=> (\E k \in 1..Len(cli.outcomes) : cli.outcomes[k] # "ok")

\* C17, as stated: under --all every config is processed whatever failed
\* before, and the exit status is non-zero if and only if a config failed.
C17_AllIndependent == AllExited => (EveryConfigProcessed /\ NonZeroIffFailed)
\* C17, amended: the same, for a config directory holding at least one *.yaml
\* file (with none, main exits non-zero although no config failed).
C17_AllIndependentNonEmpty == (AllExited /\ cli.n_yaml >= 1) => (EveryConfigProcessed /\ NonZeroIffFailed)
\* A run with --all in which the first config failed and a later one succeeded.
C17_Witness == AllExited /\ Len(cli.outcomes) >= 2 /\ cli.outcomes[1] = "download_error" /\ cli.outcomes[Len(cli.outcomes)] = "ok" /\ cli.exit_code = Some(1)

\* The folder of the tree that holds id, and the path of id below the local
\* root: the names from the root folder's child down to id.
Parent(t, id) == CHOOSE f \in FolderIds : id \in Range(t[f])
RECURSIVE TruePath(_, _)
TruePath(t, id) == IF id = "R" THEN <<>> ELSE TruePath(t, Parent(t, id)) \o <<ItemName(id)>>
\* The non-folder items of a sequence of children, in order.
RECURSIVE NonFolders(_)
NonFolders(q) == IF q = <<>> THEN <<>> ELSE (IF IsFolder(Head(q)) THEN <<>> ELSE <<Head(q)>>) \o NonFolders(Tail(q))

\* The ids below the root folder of a tree (the tree is three folders deep).
Below(t, ids) == UNION {Range(t[f]) : f \in {i \in ids : IsFolder(i)}}
Reachable(t) == Range(t["R"]) \cup Below(t, Range(t["R"])) \cup Below(t, Below(t, Range(t["R"])))

\* C19: the walker never yields a folder; a pushed subfolder carries the local
\* path parent/name and a file is yielded under the path of its folder; with
\* recursive=false no subfolder is pushed and, once the walk is over, exactly
\* the non-folder children of the root folder were yielded, in order; with
\* recursive=true a finished walk yielded every file below the root folder.
C19_WalkerYieldsFiles ==
    walk.pc # "off" =>
        /\ \A k \in 1..Len(walk.out) : ~IsFolder(walk.out[k][1]) /\ walk.out[k][2] = TruePath(walk.tree, walk.out[k][1])
        /\ \A k \in 1..Len(walk.stack) : IsFolder(walk.stack[k][1]) /\ walk.stack[k][2] = TruePath(walk.tree, walk.stack[k][1])
        /\ ~walk.recursive =>
            /\ \A k \in 1..Len(walk.stack) : walk.stack[k][1] = "R"
            /\ \A k \in 1..Len(walk.out) : walk.out[k][1] \in Range(walk.tree["R"])
            /\ walk.pc = "done" => [k \in 1..Len(walk.out) |-> walk.out[k][1]] = NonFolders(walk.tree["R"])
        /\ walk.recursive /\ walk.pc = "done" =>
            {walk.out[k][1] : k \in 1..Len(walk.out)} = {i \in Reachable(walk.tree) : ~IsFolder(i)}
\* A recursive walk over a root with a file and a subfolder is over, having
\* yielded a file two folders down.
C19_Witness == walk.pc = "done" /\ walk.recursive /\ "f1" \in Range(walk.tree["R"]) /\ \E k \in 1..Len(walk.out) : walk.out[k] = <<"f4", <<"A", "C", "z">>>>

\* The step in which the Drive fetch of d ends with an error.
DriveFails(d) == d \in DOMAIN drive_task /\ d \in DOMAIN drive_task' /\ drive_task[d].pc = "except" /\ drive_task'[d].pc = "failed"

\* C21: once a Drive fetch has ended, in success or in failure, its temp file
\* <dest>.part.<id> does not exist; a fetch ends in failure after a failed
\* verification and after an exception in the chunked download, and when it
\* does neither its temp file nor its destination exists.
C21_TempGoneAtEnd ==
    [][\A d \in DOMAIN drive_task \cap DOMAIN drive_task' :
         LET t == drive_task[d]
             u == drive_task'[d]
             dest == Dest(DriveName(d))
         IN /\ u.pc \in {"done", "failed"} => ~Exists(files', DriveTmp(dest, d))
            /\ DriveFails(d) => ~Exists(files', dest)
            /\ (t.pc = "verify" /\ u.pc # "verify" /\ verify_downloads /\ ~VerifyLocalFile(files, dest, Meta(d).size, Meta(d).md5Checksum)) => u.pc = "except"
            /\ (t.pc = "chunk" /\ u.fault = "http_error") => u.pc = "except"
            /\ (t.pc = "except" /\ u.pc # "except") => u.pc = "failed"]_vars
\* One fetch failed its verification and another one failed in a chunk; both ended.
C21_Witness ==
    \E d, e \in DOMAIN drive_task :
        /\ drive_task[d].pc = "failed" /\ drive_task[d].fault = "damaged"
        /\ drive_task[e].pc = "failed" /\ drive_task[e].fault = "http_error"

\* C22: a Drive fetch that fails before its rename step leaves a destination
\* file that was there before (from a prior run, or from another worker)
\* present and unchanged.
C22_FailureKeepsForeignDest ==
    [][\A d \in DriveIds :
         (DriveFails(d) /\ drive_task[d].fault = "http_error" /\ Exists(files, Dest(DriveName(d))))
             => (Exists(files', Dest(DriveName(d))) /\ files'[Dest(DriveName(d))] = files[Dest(DriveName(d))])]_vars

\* The step in which the listing loop of a normal-mode run handles entry id.
ListedNormally(id) == pc = "listing" /\ yielded' = Append(yielded, id) /\ ~manifest_only /\ ~verify_only
\* The local file at the destination of id has the listed size and md5, where listed.
LocalSatisfies(id) ==
    /\ Exists(files, Dest(DriveName(id)))
    /\ Meta(id).size # None => Len(files[Dest(DriveName(id))]) = Meta(id).size[1]
    /\ Meta(id).md5Checksum # None => Md5(files[Dest(DriveName(id))]) = Meta(id).md5Checksum[1]
\* The local file of id is kept: it is there, overwrite is off, and it is
\* either not verified or satisfies the verifier.
KeptLocal(id) == Exists(files, Dest(DriveName(id))) /\ ~overwrite /\ (~verify_downloads \/ LocalSatisfies(id))
\* The step schedules a download of id, or schedules nothing.
Schedules(id) == futures' = Append(futures, id) /\ id \in DOMAIN drive_task' /\ drive_task'[id].pc = "queued"
SchedulesNothing == futures' = futures /\ drive_task' = drive_task

\* C23: in normal mode an entry that is not a duplicate is scheduled unless its
\* destination exists, overwrite is false and either verification is disabled
\* or the local file satisfies the verifier for the entry's size and md5.
C23_LocalSkipDecision ==
    [][\A id \in DriveIds :
         (ListedNormally(id) /\ ~IsDuplicate(seen_md5_by_path, DriveName(id), Meta(id).md5Checksum))
             => IF KeptLocal(id) THEN SchedulesNothing ELSE Schedules(id)]_vars
\* With overwrite off and verification on, the x of a prior run satisfied the
\* first entry, which was skipped, and failed the second, which was scheduled.
C23_Witness == ~overwrite /\ verify_downloads /\ ~manifest_only /\ ~verify_only /\ Dest("x") \in DOMAIN disk0 /\ yielded = <<"d1", "d2">> /\ futures = <<"d2">>

\* C24: on every disk, verify(path, size, md5) is false for a missing path,
\* false when a size is given and differs, otherwise the md5 comparison when
\* verification is enabled and an md5 is given, otherwise true.
C24_VerifierContract ==
    (verifier.pc = "on" /\ verifier.last # None) =>
        LET call == verifier.last[1]
        IN call.result <=>
               /\ call.path \in DOMAIN files
               /\ call.expected_size # None => Len(files[call.path]) = call.expected_size[1]
               /\ (verify_downloads /\ call.expected_md5 # None) => Md5(files[call.path]) = call.expected_md5[1]
\* Verification is disabled and x holds a damaged download: the verifier
\* accepts it on its size although the md5 given is that of the sent content.
C24_Witness ==
    /\ verifier.pc = "on" /\ verifier.last # None
    /\ ~verify_downloads
    /\ Dest("x") \in DOMAIN files /\ files[Dest("x")] = <<0>>
    /\ verifier.last[1] = [path |-> Dest("x"), expected_size |-> Some(1), expected_md5 |-> Some(Md5(<<1>>)), result |-> TRUE]

\* The ids the walker has yielded, in order, and the place of one of them.
OutIds == [k \in 1..Len(walk.out) |-> walk.out[k][1]]
Pos(id) == CHOOSE k \in 1..Len(walk.out) : walk.out[k][1] = id
\* The files in the subtree of folder f.
FilesUnder(t, f) == {i \in Range(t[f]) \cup Below(t, Range(t[f])) : ~IsFolder(i)}
\* Every yielded file of set S comes before every yielded file of set T.
AllBefore(S, T) == \A a \in S \cap Range(OutIds), b \in T \cap Range(OutIds) : Pos(a) < Pos(b)
\* The files of every folder come in the order of the folder's listing.
FolderFilesInOrder ==
    \A f \in FolderIds : \A i, j \in 1..Len(walk.tree[f]) :
        (i < j /\ walk.tree[f][i] \in Range(OutIds) /\ walk.tree[f][j] \in Range(OutIds)) => Pos(walk.tree[f][i]) < Pos(walk.tree[f][j])
\* Folder A's file (x) comes before the file of A's subfolder C (A/C/z).
FileBeforeSubfolderFile == AllBefore({"f2"}, {"f4"})

\* C25, as stated: the files of one folder are yielded in listing order, and for
\* sibling subfolders S1, S2 listed in that order every file under S1 is
\* yielded before every file under S2; A/x comes before A/C/z.
C25_SiblingsInServerOrder ==
    walk.pc # "off" =>
        /\ FolderFilesInOrder
        /\ FileBeforeSubfolderFile
        /\ \A f \in FolderIds : \A i, j \in 1..Len(walk.tree[f]) :
               (i < j /\ IsFolder(walk.tree[f][i]) /\ IsFolder(walk.tree[f][j]))
                   => AllBefore(FilesUnder(walk.tree, walk.tree[f][i]), FilesUnder(walk.tree, walk.tree[f][j]))

\* The order of a walk from folder f: the files of f in listing order, then
\* the walks of its subfolders, the subfolder listed last first.
RECURSIVE WalkOrder(_, _)
RECURSIVE SubWalks(_, _)
WalkOrder(t, f) == NonFolders(t[f]) \o SubWalks(t, t[f])
SubWalks(t, q) == IF q = <<>> THEN <<>> ELSE SubWalks(t, Tail(q)) \o (IF IsFolder(Head(q)) THEN WalkOrder(t, Head(q)) ELSE <<>>)
IsPrefix(a, b) == Len(a) <= Len(b) /\ \A k \in 1..Len(a) : a[k] = b[k]

\* C25, amended: the files of one folder are yielded in listing order across
\* pages, before any file of its subfolders; the subfolders are then walked
\* depth-first, the one listed last first: for sibling subfolders S1, S2 listed
\* in that order every file under S2 is yielded before every file under S1;
\* A/x comes before A/C/z.
C25_SiblingsInStackOrder ==
    walk.pc # "off" =>
        /\ FolderFilesInOrder
        /\ FileBeforeSubfolderFile
        /\ \A f \in FolderIds : \A i, j \in 1..Len(walk.tree[f]) :
               (i < j /\ IsFolder(walk.tree[f][i]) /\ IsFolder(walk.tree[f][j]))
                   => AllBefore(FilesUnder(walk.tree, walk.tree[f][j]), FilesUnder(walk.tree, walk.tree[f][i]))
        /\ walk.recursive => IsPrefix(OutIds, WalkOrder(walk.tree, "R"))
        /\ (walk.recursive /\ walk.pc = "done") => OutIds = WalkOrder(walk.tree, "R")
\* A recursive walk of a root listing f1, A, B in pages of one is over: B's
\* file came before A's files, and A's file before the file of A's subfolder.
C25_Witness == walk.pc = "done" /\ walk.recursive /\ walk.page_size = 1 /\ walk.tree["R"] = <<"f1", "A", "B">> /\ walk.tree["A"] = <<"C", "f2">> /\ OutIds = <<"f1", "f3", "f2", "f4">>

\* The folders a recursive walk has to visit, and the number of list requests
\* the listing of n children takes in pages of ps.
FoldersToVisit(t) == {"R"} \cup {i \in Reachable(t) : IsFolder(i)}
NumPages(n, ps) == IF n = 0 THEN 1 ELSE (n + ps - 1) \div ps
\* The pages requested so far for folder f.
PagesRequested(f) == {walk.requests[k][2] : k \in {j \in 1..Len(walk.requests) : walk.requests[j][1] = f}}
\* No request is repeated, and page p > 1 of a folder is requested right after
\* its page p - 1.
PagesInSequence ==
    /\ Distinct(walk.requests)
    /\ \A k \in 1..Len(walk.requests) :
           IF walk.requests[k][2] = 1 THEN TRUE
           ELSE k > 1 /\ walk.requests[k - 1] = <<walk.requests[k][1], walk.requests[k][2] - 1>>
\* The walk is over, having visited every folder of the subtree, requested
\* every page of each and yielded every file of the subtree.
WalkedAll ==
    /\ {walk.requests[k][1] : k \in 1..Len(walk.requests)} = FoldersToVisit(walk.tree)
    /\ \A f \in FoldersToVisit(walk.tree) : PagesRequested(f) = 1..NumPages(Len(walk.tree[f]), walk.page_size)
    /\ Range(OutIds) = {i \in Reachable(walk.tree) : ~IsFolder(i)}

\* C26: with no listing error the walk terminates; a recursive walk requests
\* the pages of every folder of the subtree once and in sequence, up to the
\* page without nextPageToken, and yields every file of the subtree once.
C26_WalkTerminatesComplete ==
    /\ <>(walk.pc = "done")
    /\ [](PagesInSequence /\ Distinct(OutIds))
    /\ []((walk.pc = "done" /\ walk.recursive) => WalkedAll)
\* A recursive walk of a root with three children, in pages of two, is over:
\* the root took two requests.
C26_Witness == walk.pc = "done" /\ walk.recursive /\ walk.page_size = 2 /\ Len(walk.tree["R"]) = 3 /\ "A" \in Range(walk.tree["R"]) /\ <<"R", 2>> \in Range(walk.requests)

\* The path md5 of entry id was seen with another md5 only: the entry is CONFLICTED.
Conflicting(id) == Meta(id).md5Checksum # None /\ DriveName(id) \in DOMAIN seen_md5_by_path /\ Meta(id).md5Checksum[1] \notin seen_md5_by_path[DriveName(id)]
\* The steps a scheduled download can take: SCHEDULED (queued, then the
\* positions of the fetch) to VERIFIED (done) or FAILED.
FetchStep(a, b) ==
    \/ a = "queued" /\ b = "chunk"
    \/ a = "chunk" /\ b \in {"chunk", "replace", "except"}
    \/ a = "replace" /\ b = "verify"
    \/ a = "verify" /\ b \in {"done", "except"}
    \/ a = "except" /\ b = "failed"

\* C27: in normal mode the listing step of an entry takes exactly one of three
\* ways: DEDUPED (counted, nothing scheduled), SKIPPED_EXISTS (nothing
\* scheduled) or SCHEDULED, a CONFLICTED entry being marked and deciding like
\* any other; an entry not scheduled by its listing step is never scheduled, a
\* scheduled one only moves towards VERIFIED or FAILED, and stays there.
C27_ItemStateMachine ==
    [][(~manifest_only /\ ~verify_only /\ pc # "folder") =>
         \A id \in DriveIds :
            /\ ListedNormally(id) =>
                  IF IsDuplicate(seen_md5_by_path, DriveName(id), Meta(id).md5Checksum)
                  THEN skipped_duplicate_count' = skipped_duplicate_count + 1 /\ SchedulesNothing
                  ELSE /\ skipped_duplicate_count' = skipped_duplicate_count
                       /\ IF KeptLocal(id) THEN SchedulesNothing ELSE Schedules(id)
                       /\ Conflicting(id) => DriveName(id) \in DOMAIN conflict_md5s_by_path'
            /\ ~ListedNormally(id) => (id \in Range(futures') <=> id \in Range(futures))
            /\ id \in Range(futures') <=> id \in DOMAIN drive_task'
            /\ id \in Range(futures') => id \in Range(yielded')
            /\ (id \in DOMAIN drive_task /\ drive_task'[id].pc # drive_task[id].pc) => FetchStep(drive_task[id].pc, drive_task'[id].pc)
            /\ (id \in DOMAIN drive_task /\ drive_task[id].pc \in {"done", "failed"}) => drive_task'[id] = drive_task[id]]_vars
\* Two entries of path x with different md5 were listed: the second one was
\* marked as a conflict and scheduled all the same; one ended VERIFIED, one FAILED.
C27_Witness ==
    /\ ~manifest_only /\ ~verify_only
    /\ yielded = <<"d1", "d2">> /\ futures = <<"d1", "d2">>
    /\ "x" \in DOMAIN conflict_md5s_by_path
    /\ drive_task["d1"].pc = "done" /\ drive_task["d2"].pc = "failed"

\* A download of d is scheduled; it has ended, VERIFIED (done) or FAILED.
Scheduled(d) == d \in DOMAIN drive_task
Settled(d) == d \in DOMAIN drive_task /\ drive_task[d].pc \in {"done", "failed"}

\* Every call handed to a pool has ended and download_all has returned or raised.
AllSettled ==
    /\ \A d \in DOMAIN drive_task : Settled(d)
    /\ \A i \in DOMAIN http_task : http_task[i].pc \in {"idle", "done", "failed"}
    /\ pc \in {"returned", "raised"}

\* C28: under fair scheduling every scheduled download eventually ends, done or
\* failed, and download_all eventually returns or raises: the run comes to
\* rest with every call ended, and no scheduled download is dropped before it
\* has ended.
C28_ScheduledSettles ==
    /\ <>[]AllSettled
    /\ [][\A d \in DriveIds : (Scheduled(d) /\ ~Settled(d)) => d \in DOMAIN drive_task']_vars
\* More downloads were scheduled than there are workers, one of them failed,
\* all have ended and download_all has raised.
C28_Witness ==
    /\ Len(futures) > max_drive_workers
    /\ \A d \in DOMAIN drive_task : drive_task[d].pc \in {"done", "failed"}
    /\ \E d \in DOMAIN drive_task : drive_task[d].pc = "failed"
    /\ \E d \in DOMAIN drive_task : drive_task[d].pc = "done"
    /\ pc = "raised" /\ err = "drive"

\* C29: the listing step of an entry without md5 changes neither the seen-md5
\* map, nor the conflict map, nor the duplicate counter, never skips it as a
\* duplicate, and decides on scheduling by the local-skip decision alone, in
\* which the verifier, given no md5, checks existence and size only.
C29_NoMd5BypassesDedupe ==
    /\ [][\A id \in DriveIds :
            (ListedNormally(id) /\ Meta(id).md5Checksum = None) =>
                /\ seen_md5_by_path' = seen_md5_by_path
                /\ conflict_md5s_by_path' = conflict_md5s_by_path
                /\ skipped_duplicate_count' = skipped_duplicate_count
                /\ IF /\ Exists(files, Dest(DriveName(id)))
                      /\ ~overwrite
                      /\ verify_downloads => (Meta(id).size # None => Len(files[Dest(DriveName(id))]) = Meta(id).size[1])
                   THEN SchedulesNothing
                   ELSE Schedules(id)]_vars
    /\ [](\A p \in FinalPaths, s \in ExpectedSizes :
            VerifyLocalFile(files, p, s, None) <=> (p \in DOMAIN files /\ (s # None => Len(files[p]) = s[1])))
\* An entry without md5 was listed after another entry of the same path: it
\* was scheduled, and the maps and the counter show the first entry only.
C29_Witness ==
    /\ ~manifest_only /\ ~verify_only
    /\ yielded = <<"d1", "d4">> /\ futures = <<"d1", "d4">>
    /\ skipped_duplicate_count = 0
    /\ seen_md5_by_path = [q \in {"x"} |-> {Md5(<<1>>)}]
    /\ conflict_md5s_by_path = EmptyMap

OnlyChanges(p) == \A q \in (DOMAIN files \cup DOMAIN files') \ {p} : q \in DOMAIN files /\ q \in DOMAIN files' /\ files'[q] = files[q]
\* The step in which HTTP call i publishes its temp file, having written its body.
HttpPublishes(i) == http_task[i].pc = "rename" /\ http_task'[i].pc = "done" /\ http_task[i].off = Len(HttpBytes(http_items[i]))

\* C31: an HTTP fetch whose destination exists with overwrite off makes no
\* request and changes no file; a fetch that runs writes its body to
\* <dest>.part only, and its destination appears or changes only by the rename
\* of a fetch that wrote its whole body, and then holds that body.
C31_HttpNoOpOrAtomic ==
    [][(DOMAIN http_task' = DOMAIN http_task) =>
         \A i \in DOMAIN http_task :
            LET t == http_task[i]
                u == http_task'[i]
                dest == HttpDest(http_items[i])
            IN /\ (t.pc = "queued" /\ u.pc # "queued" /\ Exists(files, dest) /\ ~overwrite) => (u.pc = "done" /\ files' = files)
               /\ (t.pc = "write" /\ u.off = t.off + 1) => OnlyChanges(HttpTmp(dest))
               /\ (Exists(files', dest) /\ (~Exists(files, dest) \/ files'[dest] # files[dest]))
                     => \E j \in DOMAIN http_task : HttpDest(http_items[j]) = dest /\ HttpPublishes(j) /\ files'[dest] = HttpBytes(http_items[j])]_vars

\* The items list of a document, empty when absent.
RawItems(doc) == IF doc.items = None THEN <<>> ELSE doc.items[1]
\* The kind an entry is read with: http_file when the entry names none.
KindOf(item) == IF item.kind = None THEN "http_file" ELSE item.kind[1]
\* A reason to reject the document.
BadItem(item) ==
    \/ ~item.mapping
    \/ KindOf(item) \notin {"http_file", "gdrive_folder"}
    \/ KindOf(item) = "http_file" /\ (item.url = None \/ item.url = Some(""))
    \/ KindOf(item) = "gdrive_folder" /\ (item.folder_id = None \/ item.folder_id = Some(""))
BadConfig(doc) ==
    \/ ~doc.exists
    \/ ~doc.root_mapping
    \/ doc.source = None \/ doc.source = Some("")
    \/ RawItems(doc) = <<>>
    \/ \E k \in 1..Len(RawItems(doc)) : BadItem(RawItems(doc)[k])

\* C32: the loader raises, and gives no SourceConfig, exactly for a missing
\* file, a root that is no mapping, a missing or empty source, a missing or
\* empty items list, an entry that is no mapping, an unknown kind, an
\* http_file without url and a gdrive_folder without folder_id; otherwise the
\* items keep their order, and output_dir is the base output directory when
\* given, else the config's.
C32_LoaderRejects ==
    loader.pc \in {"returned", "raised"} =>
        LET doc == loader.doc
            res == loader.result
        IN /\ loader.pc = "raised" <=> BadConfig(doc)
           /\ loader.pc = "raised" => (~res.ok /\ res.config = None)
           /\ loader.pc = "returned" =>
                 LET cfg == res.config[1]
                 IN /\ Len(cfg.items) = Len(RawItems(doc))
                    /\ \A k \in 1..Len(cfg.items) :
                          /\ cfg.items[k].kind = KindOf(RawItems(doc)[k])
                          /\ cfg.items[k].kind = "http_file" => cfg.items[k].url = RawItems(doc)[k].url
                          /\ cfg.items[k].kind = "gdrive_folder" => cfg.items[k].folder_id = RawItems(doc)[k].folder_id
                    /\ loader.base_output_dir # None => cfg.output_dir = loader.base_output_dir[1]
                    /\ (loader.base_output_dir = None /\ doc.output_dir # None) => cfg.output_dir = doc.output_dir[1]
\* A config of a Drive folder and an HTTP file, in that order, was loaded
\* with a base output directory that differs from the config's.
C32_Witness ==
    /\ loader.pc = "returned"
    /\ loader.doc.output_dir = Some("cfg_dir") /\ loader.base_output_dir = Some("base_dir")
    /\ Len(loader.result.config[1].items) = 2
    /\ loader.result.config[1].items[1].kind = "gdrive_folder"
    /\ loader.result.config[1].items[2].kind = "http_file"
    /\ loader.result.config[1].output_dir = "base_dir"

\* Some http_file item of the config has no filename and none can be derived
\* from its URL.
NamelessItem == \E i \in DOMAIN http_items : FileName(http_items[i]) = ""

\* C33: a config with an http_file item that has no derivable filename is
\* rejected as a whole: no item of it is fetched and no file under target_root
\* is written.
C33_NamelessItemRejectsConfig ==
    NamelessItem =>
        /\ files = disk0
        /\ \A i \in DOMAIN http_task : http_task[i].pc \notin {"get", "write", "rename"}
        /\ futures = <<>>

\* C34: within one Downloader the load/refresh/consent sequence and the
\* token-file write run at most once, never in two threads at a time, and
\* every thread's client is built from the same credentials object.
C34_CredentialsMintedOnce ==
    creds.pc = "on" =>
        /\ creds.loads <= 1
        /\ creds.token_writes <= 1
        /\ ~creds.overlap
        /\ \A t, u \in DOMAIN creds.th : (creds.th[t].service # None /\ creds.th[u].service # None) => creds.th[t].service = creds.th[u].service
\* The consent flow ran and the token was written; the orchestrator's thread
\* and two pool threads have their clients.
C34_Witness ==
    /\ creds.pc = "on"
    /\ creds.mode = "no_token"
    /\ creds.token_writes = 1
    /\ Cardinality({t \in DOMAIN creds.th : creds.th[t].service # None}) >= 3

C36_HttpTempsDistinct ==
    /\ \A i, j \in DOMAIN http_task :
          (i # j /\ http_task[i].pc \in {"write", "rename"} /\ http_task[j].pc \in {"write", "rename"})
              => HttpTmp(HttpDest(http_items[i])) # HttpTmp(HttpDest(http_items[j]))
    /\ \A i \in DOMAIN http_task : http_task[i].at \notin FinalPaths

\* HTTP call i ended with a request, transfer or write error.
FetchFailed(i) == http_task[i].pc = "failed" /\ http_task[i].fault = "http_error"
\* What the destination of call i may hold when the fetch of i had no effect
\* on it: what it held before the run, or the body of another call that
\* fetched it and returned.
UntouchedContents(i) ==
    (IF HttpDest(http_items[i]) \in DOMAIN disk0 THEN {disk0[HttpDest(http_items[i])]} ELSE {})
    \cup {HttpBytes(http_items[j]) : j \in {k \in DOMAIN http_task \ {i} : HttpDest(http_items[k]) = HttpDest(http_items[i]) /\ http_task[k].pc = "done" /\ http_task[k].off > 0}}

C38_BranchesAgree ==
    [][/\ (pc = "listing" /\ yielded' # yielded) =>
              LET meta == Meta(yielded'[Len(yielded')])
              IN /\ LoopBodyProgress(Locals, meta, files) = LoopBodyPlain(Locals, meta, files)
                 /\ Locals' = LoopBodyPlain(Locals, meta, files)
       /\ (pc = "listing" /\ (pc' \in {"folder", "drain"} \/ (pc' = "raised" /\ err' = "verify"))) =>
              LET after == AfterLoopProgress(manifest_file, manifest, files)
              IN /\ after = AfterLoopPlain(manifest_file, manifest, files)
                 /\ manifest_file' = after.manifest_file
                 /\ after.outcome = (IF pc' = "folder" THEN "return" ELSE IF pc' = "raised" THEN "raise" ELSE "drain")]_vars
\* The loop has seen a file that is on disk and is kept, and then an entry
\* with the same path and md5; a further entry can be yielded.
C38_Witness ==
    /\ pc = "listing" /\ ~manifest_only /\ ~verify_only
    /\ yielded # <<>> /\ futures = <<>> /\ seen_md5_by_path # EmptyMap
    /\ \E id \in DriveIds : WalkerYields(id) /\ IsDuplicate(seen_md5_by_path, Meta(id).name, Meta(id).md5Checksum)

\* The entries of e that are no later repeat: no md5, or no earlier entry with
\* the same path and md5.
FirstOccurrences(e) ==
    {i \in 1..Len(e) : e[i].md5 = None \/ ~\E j \in 1..(i - 1) : e[j].path = e[i].path /\ e[j].md5 = e[i].md5}
\* The entries of e at the indices in keep, in their order in e.
RECURSIVE Restrict(_, _, _)
Restrict(e, keep, k) ==
    IF k = 0 THEN <<>>
    ELSE IF k \in keep THEN Append(Restrict(e, keep, k - 1), e[k]) ELSE Restrict(e, keep, k - 1)
\* The paths that e has with two different md5.
PathsInConflict(e) ==
    {e[i].path[1] : i \in {k \in 1..Len(e) : \E j \in 1..Len(e) : e[j].path = e[k].path /\ e[j].md5 # None /\ e[k].md5 # None /\ e[j].md5 # e[k].md5}}
\* What a returned call on the entries e has to leave behind.
DedupeCallCorrect(call) ==
    LET e == LoadManifest(call.before[1])
        kept == Restrict(e, FirstOccurrences(e), Len(e))
        removed == Len(e) - Len(kept)
        report == call.returned[1]
        rewritten == ~call.dry_run /\ removed # 0
    IN /\ report.entries_after = Len(kept) /\ report.duplicates_removed = removed
       /\ report.md5_missing_entries = Cardinality({i \in 1..Len(e) : e[i].md5 = None})
       /\ DOMAIN report.conflicts_sample = PathsInConflict(e) /\ report.conflicting_paths = Cardinality(PathsInConflict(e))
       /\ \A i, j \in 1..Len(e) : (e[i].path = e[j].path /\ e[i].md5 # None /\ e[j].md5 # None /\ e[i].md5 # e[j].md5) => \E k \in 1..Len(kept) : kept[k].path = e[i].path /\ kept[k].md5 = e[i].md5
       /\ dedupe.manifest_file = IF rewritten THEN Some(ToJson([i \in 1..Len(kept) |-> [id |-> kept[i].id, path |-> kept[i].path[1], md5 |-> kept[i].md5, size |-> kept[i].size]])) ELSE call.before
       /\ dedupe.backups = IF rewritten /\ call.backup THEN Append(call.backups_before, call.before[1]) ELSE call.backups_before
       /\ call.applied_before => removed = 0 /\ dedupe.manifest_file = call.before /\ dedupe.backups = call.backups_before

\* C39: a returned call leaves the first occurrences of each (path, md5) pair
\* and every entry without md5, in their order; a call after a call that was
\* no dry run removes nothing and changes no file; a dry run or a manifest
\* without repeats leaves .manifest.json and the backups as they were;
\* entries of one path with different md5 all stay and are reported.
C39_DedupeKeepsFirst ==
    (dedupe.pc = "on" /\ dedupe.last # None) =>
        IF dedupe.last[1].raised THEN dedupe.manifest_file = None /\ dedupe.backups = <<>>
        ELSE DedupeCallCorrect(dedupe.last[1])
\* A second call, after a call that rewrote a manifest of three entries with a
\* repeat, a conflict on one path and a backup.
C39_Witness ==
    /\ dedupe.pc = "on" /\ dedupe.calls = 2 /\ dedupe.last # None /\ dedupe.applied
    /\ dedupe.last[1].applied_before /\ ~dedupe.last[1].raised
    /\ Len(dedupe.backups) = 1 /\ Len(dedupe.backups[1]) = 3 /\ Len(dedupe.manifest_file[1]) = 2
    /\ dedupe.report_file[1].conflicting_paths = 1

====
